---- MODULE Spec2Model ----
(***************************************************************************)
(* The block-diff-and-apply index engine of ckb-sdk/src/index/types.rs:    *)
(* BlockDeltaInfo::from_block computes the pending mutations of one block  *)
(* against the store as the writer sees it, BlockDeltaInfo::apply writes   *)
(* them through the writer, and the driver commits the writer.             *)
(***************************************************************************)
EXTENDS Integers, Sequences, FiniteSets, TLC

\* ------------------------------------------------------------------ bounds

\* Number of blocks fed to the engine in one behaviour.
MaxBlocks == 3
\* Transactions per block.
MaxTxs == 2
\* Inputs per transaction.
MaxInputs == 2
\* Outputs per transaction.
MaxOutputs == 2
\* Inputs plus outputs over a whole chain.
MaxCells == 4
\* The same limits while a read-only query runs beside the writer.
ReaderBlocks == 2
ReaderCells == 3
\* Blocks of the long run of empty blocks.
RetentionBlocks == 40
\* The retention window. The source sets KEEP_RECENT_HEADERS to 10_000; the
\* code reads it only in number + KEEP_RECENT_HEADERS <= header.number, and
\* the model runs that comparison with a window short enough to fill and
\* overflow within a run.
KEEP_RECENT_HEADERS == 2

\* Bits of a 64-bit integer, scaled: u64 runs over 0..2^I64Bits - 1 and i64
\* over -2^(I64Bits - 1)..2^(I64Bits - 1) - 1, so that both ends are within
\* reach of the capacities of a few cells.
I64Bits == 16
\* The limits of the run with capacities at the edge of the integer widths.
WideBlocks == 2
WideCells == 3
\* The limits of the run over the shapes of lock scripts.
ShapeBlocks == 2
ShapeCells == 3
\* Blocks of the run of empty blocks whose numbers may skip, and the most
\* the number of a block may exceed that of the block before it.
HeaderBlocks == 4
MaxGap == 3

\* ------------------------------------------------------------ input domain

\* A lock script; SECP stands for SECP_CODE_HASH.
ScriptA == [code_hash |-> "SECP", args |-> <<"arg20">>]
ScriptB == [code_hash |-> "OTHER", args |-> <<>>]
Scripts == {ScriptA, ScriptB}

\* The other shapes of a lock script: SECP_CODE_HASH with no argument, with
\* two arguments and with one argument that is no lock argument, and another
\* code hash with one argument.
ScriptNoArg == [code_hash |-> "SECP", args |-> <<>>]
ScriptTwoArgs == [code_hash |-> "SECP", args |-> <<"arg20", "arg20">>]
ScriptBadArg == [code_hash |-> "SECP", args |-> <<"arg7">>]
ScriptOtherArg == [code_hash |-> "OTHER", args |-> <<"arg20">>]
ScriptShapes == Scripts \cup {ScriptNoArg, ScriptTwoArgs, ScriptBadArg, ScriptOtherArg}

\* Script::hash: a collision-free digest of the script.
ScriptHash(script) ==
    IF script = ScriptA THEN "L1"
    ELSE IF script = ScriptNoArg THEN "L3"
    ELSE IF script = ScriptTwoArgs THEN "L4"
    ELSE IF script = ScriptBadArg THEN "L5"
    ELSE IF script = ScriptOtherArg THEN "L6"
    ELSE "L2"

\* Transaction::hash: a collision-free digest; a transaction is identified
\* by the block that holds it and its position there.
TxHash(number, tx_index) == <<number, tx_index>>

\* CellOutPoint { tx_hash, index }
CellOutPoint(tx_hash, index) == <<tx_hash[1], tx_hash[2], index>>

\* Option<T>: None is the empty sequence, Some(v) the sequence of v.
None == <<>>
Some(v) == <<v>>

VARIABLES
    store,      \* the key-value store as the writer transaction sees it
    committed,  \* the store as committed: what a new snapshot reads
    pc,         \* where the driver is: idle, diffed, txs, locks, applied, aborted
    block,      \* the block being processed (None when idle)
    delta,      \* the BlockDeltaInfo of the block (None before from_block)
    result,     \* the ApplyResult of the last apply (None before)
    panic,      \* why the process aborted ("none" while it runs)
    chain,      \* the blocks applied and committed so far, in order
    used,       \* inputs plus outputs of the blocks delivered so far
    call,       \* the operation invoked last
    snap,       \* what the read-only query's snapshot holds
    lim,        \* the limits of the block source in this behaviour
    codec,      \* a key component on its way through to_bytes and from_bytes
    deploy      \* the deploy subcommand at work (None when it is not run)

vars == <<store, committed, pc, block, delta, result, panic, chain, used, call, snap,
          lim, codec, deploy>>

\* --------------------------------------------------------------- the store

EmptyMap == [k \in {} |-> 0]

\* One map per key type of super::key::Key; RecentHeader is kept as the
\* ordered store iterates it, in ascending number order.
EmptyStore == [
    TotalCapacity |-> None,
    LastHeader |-> None,
    RecentHeader |-> <<>>,
    GlobalHash |-> EmptyMap,
    TxMap |-> EmptyMap,
    SecpAddrLock |-> EmptyMap,
    LiveCellMap |-> EmptyMap,
    LiveCellIndex |-> EmptyMap,
    LockScript |-> EmptyMap,
    LockTotalCapacity |-> EmptyMap,
    LockTotalCapacityIndex |-> {},
    LockLiveCellIndex |-> EmptyMap,
    LockTx |-> EmptyMap]

MapPut(m, k, v) == [x \in (DOMAIN m) \cup {k} |-> IF x = k THEN v ELSE m[x]]
MapDelete(m, k) == [x \in (DOMAIN m) \ {k} |-> m[x]]

\* store.get(writer, key): the value under a key of a map, as an Option.
StoreGet(s, table, k) == IF k \in DOMAIN s[table] THEN Some(s[table][k]) ELSE None

\* A write in progress: the writer's view and whether every call so far
\* returned Ok (a failed call is unwrapped, which panics).
Writing(s) == [s |-> s, ok |-> TRUE]

\* put_pair(store, writer, (key, value))
put_pair(w, table, k, v) ==
    IF w.ok THEN [w EXCEPT !.s[table] = MapPut(@, k, v)] ELSE w

\* store.delete(writer, key).unwrap(): deleting a key that is not there
\* returns Err, and unwrap panics.
DeleteUnwrap(w, table, k) ==
    IF ~w.ok THEN w
    ELSE IF k \in DOMAIN w.s[table]
         THEN [w EXCEPT !.s[table] = MapDelete(@, k)]
         ELSE [w EXCEPT !.ok = FALSE]

\* ------------------------------------------------------------ u64 arithmetic

Pow2(n) == 2^n

\* u64::MAX
U64Max == Pow2(I64Bits) - 1

\* Whether the build checks integer overflow (the dev profile does, the
\* release profile by default does not): fixed for a whole behaviour.
OverflowChecks == lim.overflow_checks

\* a + b in u64: with overflow checks an overflow panics (ok is FALSE),
\* without them the sum wraps.
AddU64(a, b) ==
    [ok |-> a + b <= U64Max \/ ~OverflowChecks, value |-> (a + b) % (U64Max + 1)]

\* ------------------------------------------------------------------ LockInfo

\* LockInfo::new with the running total started from zero.
LockInfoNewFromZero(old_total_capacity) == [
    script_opt |-> None,
    address_opt |-> None,
    old_total_capacity |-> old_total_capacity,
    new_total_capacity |-> 0,
    inputs_capacity |-> 0,
    outputs_capacity |-> 0]

LockInfoNew(old_total_capacity) == [
    script_opt |-> None,
    address_opt |-> None,
    old_total_capacity |-> old_total_capacity,
    new_total_capacity |-> old_total_capacity,
    inputs_capacity |-> 0,
    outputs_capacity |-> 0]

\* Address::from_lock_arg: Ok for a 20-byte argument.
AddressFromLockArg(lock_arg) ==
    IF lock_arg = "arg20" THEN Some([hash |-> lock_arg]) ELSE None

\* set_script that takes the first argument whatever their number.
SetScriptAnyArgs(info, script) ==
    LET address_opt ==
            IF script.code_hash = "SECP"
            THEN IF Len(script.args) >= 1
                 THEN AddressFromLockArg(script.args[1])
                 ELSE None
            ELSE None
    IN [info EXCEPT !.script_opt = Some(script), !.address_opt = address_opt]

set_script(info, script) ==
    LET address_opt ==
            IF script.code_hash = "SECP"
            THEN IF Len(script.args) = 1
                 THEN AddressFromLockArg(script.args[1])
                 ELSE None
            ELSE None
    IN [info EXCEPT !.script_opt = Some(script), !.address_opt = address_opt]

\* add_input with the subtraction saturating in place of the assertion.
AddInputClamp(info, input_capacity) ==
    [ok |-> TRUE, panic |-> "none",
     info |-> [info EXCEPT
                 !.inputs_capacity = @ + input_capacity,
                 !.new_total_capacity =
                     IF @ >= input_capacity THEN @ - input_capacity ELSE 0]]

\* add_input that counts the input but leaves the running total alone.
AddInputUncounted(info, input_capacity) ==
    [ok |-> info.new_total_capacity >= input_capacity, panic |-> "add_input_assert",
     info |-> [info EXCEPT !.inputs_capacity = @ + input_capacity]]

\* add_input: [ok, panic, info]; ok is FALSE when the += overflows in a
\* build that checks it, or when the assertion fails.
\* sum: self.inputs_capacity += input_capacity, as AddU64 gives it.
AddInputSummed(info, input_capacity, sum) ==
    IF ~sum.ok
    THEN [ok |-> FALSE, panic |-> "add_overflow", info |-> info]
    ELSE IF info.new_total_capacity >= input_capacity
         THEN [ok |-> TRUE, panic |-> "none",
               info |-> [info EXCEPT !.inputs_capacity = sum.value,
                                     !.new_total_capacity = @ - input_capacity]]
         ELSE [ok |-> FALSE, panic |-> "add_input_assert",
               info |-> [info EXCEPT !.inputs_capacity = sum.value]]

add_input(info, input_capacity) ==
    AddInputSummed(info, input_capacity, AddU64(info.inputs_capacity, input_capacity))

\* add_output that counts the output twice in the running total.
AddOutputTwice(info, output_capacity) ==
    [ok |-> TRUE, panic |-> "none",
     info |-> [info EXCEPT !.outputs_capacity = @ + output_capacity,
                           !.new_total_capacity = @ + 2 * output_capacity]]

\* add_output: [ok, panic, info]; ok is FALSE when a += overflows in a build
\* that checks it.
\* outs, total: the two += of add_output, as AddU64 gives them.
AddOutputSummed(info, outs, total) ==
    IF ~outs.ok \/ ~total.ok
    THEN [ok |-> FALSE, panic |-> "add_overflow", info |-> info]
    ELSE [ok |-> TRUE, panic |-> "none",
          info |-> [info EXCEPT !.outputs_capacity = outs.value,
                                !.new_total_capacity = total.value]]

add_output(info, output_capacity) ==
    AddOutputSummed(info, AddU64(info.outputs_capacity, output_capacity),
                    AddU64(info.new_total_capacity, output_capacity))

\* ---------------------------------------------------------------- from_block

CellIndexNew(tx_index, output_index) ==
    [tx_index |-> tx_index, output_index |-> output_index]

\* The entry created without reading the persisted total.
LockEntryFromZero(locks, s, lock_hash) ==
    IF lock_hash \in DOMAIN locks THEN locks[lock_hash] ELSE LockInfoNew(0)

\* locks.entry(lock_hash).or_insert_with(|| LockInfo::new(persisted total or 0))
LockEntry(locks, s, lock_hash) ==
    IF lock_hash \in DOMAIN locks
    THEN locks[lock_hash]
    ELSE LET got == StoreGet(s, "LockTotalCapacity", lock_hash)
         IN LockInfoNew(IF got = None THEN 0 ELSE got[1])

\* The inputs with an input that references no cell taken for a reference
\* to the null out-point.
RECURSIVE InputCellsNullOutPoint(_)
InputCellsNullOutPoint(inputs) ==
    IF inputs = <<>> THEN <<>>
    ELSE (IF Head(inputs).cell = None THEN <<<<0, 0, 0>>>> ELSE <<Head(inputs).cell[1]>>)
         \o InputCellsNullOutPoint(Tail(inputs))

\* The inputs that carry a cell reference, in order (the filter_map).
RECURSIVE InputCells(_)
InputCells(inputs) ==
    IF inputs = <<>> THEN <<>>
    ELSE (IF Head(inputs).cell = None THEN <<>> ELSE <<Head(inputs).cell[1]>>)
         \o InputCells(Tail(inputs))

\* The scan after one add_input or add_output on the entry of lock_hash:
\* added is what that call gave.
Folded(acc, list, live_cell_info, added) ==
    [acc EXCEPT !.ok = added.ok,
                !.panic = IF added.ok THEN @ ELSE added.panic,
                ![list] = Append(@, live_cell_info),
                !.locks = MapPut(@, live_cell_info.lock_hash, added.info)]

\* The body of the loop over the inputs for a cell found in the store.
ScanInput(acc, s, live_cell_info) ==
    Folded(acc, "inputs", live_cell_info,
           add_input(LockEntry(acc.locks, s, live_cell_info.lock_hash),
                     live_cell_info.capacity))

\* The loop over the inputs passing over a cell the store does not hold.
RECURSIVE ScanInputsSkipUnknown(_, _, _, _)
ScanInputsSkipUnknown(acc, s, cells, i) ==
    IF ~acc.ok \/ i > Len(cells) THEN acc
    ELSE IF cells[i] \notin DOMAIN s.LiveCellMap
         THEN ScanInputsSkipUnknown(acc, s, cells, i + 1)
         ELSE ScanInputsSkipUnknown(
                  ScanInput(acc, s, StoreGet(s, "LiveCellMap", cells[i])[1]),
                  s, cells, i + 1)

\* The loop over a transaction's inputs, from the i-th referenced cell on.
\* acc: [ok, panic, locks, inputs, outputs]. A cell the store does not hold
\* makes the unwrap of line 145 panic.
RECURSIVE ScanInputs(_, _, _, _)
ScanInputs(acc, s, cells, i) ==
    IF ~acc.ok \/ i > Len(cells) THEN acc
    ELSE IF cells[i] \notin DOMAIN s.LiveCellMap
         THEN [acc EXCEPT !.ok = FALSE, !.panic = "unknown_input"]
         ELSE ScanInputs(ScanInput(acc, s, StoreGet(s, "LiveCellMap", cells[i])[1]),
                         s, cells, i + 1)

\* The loop over a transaction's outputs, from the j-th on (j counts from 1,
\* output_index from 0).
\* The LiveCellInfo of an output.
LiveCellInfoOf(number, tx_index, output_index, output) ==
    [out_point |-> CellOutPoint(TxHash(number, tx_index), output_index),
     index |-> CellIndexNew(tx_index, output_index),
     lock_hash |-> ScriptHash(output.lock),
     capacity |-> output.capacity,
     number |-> number]

\* The fold of an output that leaves the lock's script unset.
ScanOutputNoScript(acc, s, output, live_cell_info) ==
    Folded(acc, "outputs", live_cell_info,
           add_output(LockEntry(acc.locks, s, live_cell_info.lock_hash),
                      output.capacity))

\* The body of the loop over the outputs.
ScanOutput(acc, s, output, live_cell_info) ==
    Folded(acc, "outputs", live_cell_info,
           add_output(set_script(LockEntry(acc.locks, s, live_cell_info.lock_hash),
                                 output.lock),
                      output.capacity))

RECURSIVE ScanOutputs(_, _, _, _, _, _)
ScanOutputs(acc, s, number, tx_index, outs, j) ==
    IF ~acc.ok \/ j > Len(outs) THEN acc
    ELSE ScanOutputs(ScanOutput(acc, s, outs[j],
                                LiveCellInfoOf(number, tx_index, j - 1, outs[j])),
                     s, number, tx_index, outs, j + 1)

\* The map over the block's transactions, from the t-th on (t counts from 1,
\* tx_index from 0). acc: [ok, panic, locks, txs].
\* The RichTxInfo of the t-th transaction once its loops are through:
\* scanned is [ok, panic, locks, inputs, outputs].
ScannedTx(acc, b, t, scanned) ==
    [ok |-> scanned.ok, panic |-> scanned.panic, locks |-> scanned.locks,
     txs |-> IF scanned.ok
             THEN Append(acc.txs, [tx_hash |-> TxHash(b.number, t - 1),
                                   tx_index |-> t - 1,
                                   block_number |-> b.number,
                                   block_timestamp |-> b.timestamp,
                                   inputs |-> scanned.inputs,
                                   outputs |-> scanned.outputs])
             ELSE acc.txs]

\* A store in which the cells a transaction produced are already live.
WithProduced(s, outputs) ==
    [s EXCEPT !.LiveCellMap =
        [p \in DOMAIN @ \cup {outputs[j].out_point : j \in 1..Len(outputs)} |->
            IF \E j \in 1..Len(outputs) : outputs[j].out_point = p
            THEN (CHOOSE c \in {outputs[j] : j \in 1..Len(outputs)} : c.out_point = p)
            ELSE @[p]]]

\* The map over the transactions with each transaction resolving its inputs
\* against the store and the outputs of the transactions before it.
RECURSIVE ScanTxsSeeingOutputs(_, _, _, _)
ScanTxsSeeingOutputs(acc, s, b, t) ==
    IF ~acc.ok \/ t > Len(b.txs) THEN acc
    ELSE ScanTxsSeeingOutputs(
             ScannedTx(acc, b, t,
                 ScanOutputs(
                     ScanInputs([ok |-> TRUE, panic |-> "none", locks |-> acc.locks,
                                 inputs |-> <<>>, outputs |-> <<>>],
                                s, InputCells(b.txs[t].inputs), 1),
                     s, b.number, t - 1, b.txs[t].outputs, 1)),
             WithProduced(s, [j \in 1..Len(b.txs[t].outputs) |->
                                 LiveCellInfoOf(b.number, t - 1, j - 1, b.txs[t].outputs[j])]),
             b, t + 1)

RECURSIVE ScanTxs(_, _, _, _)
ScanTxs(acc, s, b, t) ==
    IF ~acc.ok \/ t > Len(b.txs) THEN acc
    ELSE ScanTxs(
             ScannedTx(acc, b, t,
                 ScanOutputs(
                     ScanInputs([ok |-> TRUE, panic |-> "none", locks |-> acc.locks,
                                 inputs |-> <<>>, outputs |-> <<>>],
                                s, InputCells(b.txs[t].inputs), 1),
                     s, b.number, t - 1, b.txs[t].outputs, 1)),
             s, b, t + 1)

\* The scan with a strict comparison: one block late.
RECURSIVE CollectOldHeadersStrict(_, _, _)
CollectOldHeadersStrict(headers, number, i) ==
    IF i > Len(headers) THEN <<>>
    ELSE IF headers[i].header.number + KEEP_RECENT_HEADERS < number
         THEN <<headers[i].header.number>>
              \o CollectOldHeadersStrict(headers, number, i + 1)
         ELSE <<>>

\* The scan that stops after the first header it has collected.
CollectOldHeadersOne(headers, number, i) ==
    IF i > Len(headers) THEN <<>>
    ELSE IF headers[i].header.number + KEEP_RECENT_HEADERS <= number
         THEN <<headers[i].header.number>>
         ELSE <<>>

\* The scan of the retained headers from the start of the RecentHeader keys:
\* collect while number + KEEP_RECENT_HEADERS <= header.number, stop at the
\* first younger one (or at the end of the RecentHeader keys).
RECURSIVE CollectOldHeaders(_, _, _)
CollectOldHeaders(headers, number, i) ==
    IF i > Len(headers) THEN <<>>
    ELSE IF headers[i].header.number + KEEP_RECENT_HEADERS <= number
         THEN <<headers[i].header.number>> \o CollectOldHeaders(headers, number, i + 1)
         ELSE <<>>

\* One addition of a sum: once an addition has panicked the rest is not run.
SumStep(rest, v) ==
    [ok |-> rest.ok /\ AddU64(rest.value, v).ok, value |-> AddU64(rest.value, v).value]

\* The u64 sum of a field over the values of the locks map: [ok, value],
\* as AddU64 gives it.
RECURSIVE SumLocks(_, _, _)
SumLocks(locks, keys, field) ==
    IF keys = {} THEN [ok |-> TRUE, value |-> 0]
    ELSE LET k == CHOOSE x \in keys : TRUE
         IN SumStep(SumLocks(locks, keys \ {k}, field), locks[k][field])

\* The chain total without the subtraction of the old lock totals.
NewChainCapacityNoSub(old_chain_capacity, locks_old_total, locks_new_total) ==
    old_chain_capacity + locks_new_total

NewChainCapacity(old_chain_capacity, locks_old_total, locks_new_total) ==
    old_chain_capacity - locks_old_total + locks_new_total

\* The end of from_block: scan is what the map over the transactions gave,
\* locks_old_total and locks_new_total the two u64 sums.
DeltaOf(b, s, scan, locks_old_total, locks_new_total, old_chain_capacity) ==
    IF ~scan.ok
    THEN [ok |-> FALSE, panic |-> scan.panic, delta |-> None]
    ELSE IF ~locks_old_total.ok \/ ~locks_new_total.ok
    THEN [ok |-> FALSE, panic |-> "add_overflow", delta |-> None]
    ELSE [ok |-> TRUE, panic |-> "none",
          delta |-> Some([
              header |-> [number |-> b.number, timestamp |-> b.timestamp],
              txs |-> scan.txs,
              locks |-> scan.locks,
              old_headers |-> CollectOldHeaders(s.RecentHeader, b.number, 1),
              old_chain_capacity |-> old_chain_capacity,
              new_chain_capacity |-> NewChainCapacity(old_chain_capacity,
                                        locks_old_total.value,
                                        locks_new_total.value),
              uncles_size |-> b.uncles,
              proposals_size |-> b.proposals])]

\* The two sums over the locks the scan touched.
Summed(b, s, scan) ==
    DeltaOf(b, s, scan,
            SumLocks(scan.locks, DOMAIN scan.locks, "old_total_capacity"),
            SumLocks(scan.locks, DOMAIN scan.locks, "new_total_capacity"),
            IF s.TotalCapacity = None THEN 0 ELSE s.TotalCapacity[1])

\* from_block(block, store, writer): [ok, panic, delta].
from_block(b, s) ==
    Summed(b, s, ScanTxs([ok |-> TRUE, panic |-> "none", locks |-> EmptyMap,
                          txs |-> <<>>], s, b, 1))

\* --------------------------------------------------------------------- apply

\* RichTxInfo::to_thin
to_thin(tx) == [
    tx_hash |-> tx.tx_hash,
    tx_index |-> tx.tx_index,
    block_number |-> tx.block_number,
    block_timestamp |-> tx.block_timestamp,
    inputs |-> [i \in 1..Len(tx.inputs) |-> tx.inputs[i].out_point],
    outputs |-> [i \in 1..Len(tx.outputs) |-> tx.outputs[i].out_point]]

\* The loop over tx.inputs without the delete of the by-origin record.
RECURSIVE ApplyInputsKeepCell(_, _, _)
ApplyInputsKeepCell(w, tx, i) ==
    IF i > Len(tx.inputs) THEN w
    ELSE LET c == tx.inputs[i]
             w1 == put_pair(w, "LockTx",
                            <<c.lock_hash, c.number, c.index.tx_index>>, tx.tx_hash)
             w3 == DeleteUnwrap(w1, "LiveCellIndex", <<c.number, c.index>>)
             w4 == DeleteUnwrap(w3, "LockLiveCellIndex",
                                <<c.lock_hash, c.number, c.index>>)
         IN ApplyInputsKeepCell(w4, tx, i + 1)

\* The loop over tx.inputs of apply, from the i-th on.
RECURSIVE ApplyInputs(_, _, _)
ApplyInputs(w, tx, i) ==
    IF i > Len(tx.inputs) THEN w
    ELSE LET c == tx.inputs[i]
             w1 == put_pair(w, "LockTx",
                            <<c.lock_hash, c.number, c.index.tx_index>>, tx.tx_hash)
             w2 == DeleteUnwrap(w1, "LiveCellMap", c.out_point)
             w3 == DeleteUnwrap(w2, "LiveCellIndex", <<c.number, c.index>>)
             w4 == DeleteUnwrap(w3, "LockLiveCellIndex",
                                <<c.lock_hash, c.number, c.index>>)
         IN ApplyInputs(w4, tx, i + 1)

\* The loop over tx.outputs without the by-lock-and-position record.
RECURSIVE ApplyOutputsNoLockIndex(_, _, _)
ApplyOutputsNoLockIndex(w, tx, j) ==
    IF j > Len(tx.outputs) THEN w
    ELSE LET c == tx.outputs[j]
             w1 == put_pair(w, "LockTx",
                            <<c.lock_hash, c.number, c.index.tx_index>>, tx.tx_hash)
             w2 == put_pair(w1, "LiveCellMap", c.out_point, c)
             w3 == put_pair(w2, "LiveCellIndex", <<c.number, c.index>>, c.out_point)
         IN ApplyOutputsNoLockIndex(w3, tx, j + 1)

\* The loop over tx.outputs of apply, from the j-th on.
RECURSIVE ApplyOutputs(_, _, _)
ApplyOutputs(w, tx, j) ==
    IF j > Len(tx.outputs) THEN w
    ELSE LET c == tx.outputs[j]
             w1 == put_pair(w, "LockTx",
                            <<c.lock_hash, c.number, c.index.tx_index>>, tx.tx_hash)
             w2 == put_pair(w1, "LiveCellMap", c.out_point, c)
             w3 == put_pair(w2, "LiveCellIndex", <<c.number, c.index>>, c.out_point)
             w4 == put_pair(w3, "LockLiveCellIndex",
                            <<c.lock_hash, c.number, c.index>>, c.out_point)
         IN ApplyOutputs(w4, tx, j + 1)

\* "Update cells and transactions": the loop over self.txs, from the t-th on.
RECURSIVE ApplyTxs(_, _, _)
ApplyTxs(w, txs, t) ==
    IF t > Len(txs) THEN w
    ELSE LET tx == txs[t]
             w1 == put_pair(w, "TxMap", tx.tx_hash, to_thin(tx))
             w2 == ApplyInputs(w1, tx, 1)
             w3 == ApplyOutputs(w2, tx, 1)
         IN ApplyTxs(w3, txs, t + 1)

\* The counters assigned, not accumulated: the last transaction's lengths.
CountCellsLast(txs, field) ==
    IF txs = <<>> THEN 0 ELSE Len(txs[Len(txs)][field])

\* result.cell_removed / result.cell_added over the transactions.
RECURSIVE CountCells(_, _)
CountCells(txs, field) ==
    IF txs = <<>> THEN 0
    ELSE Len(Head(txs)[field]) + CountCells(Tail(txs), field)

\* The writes for one lock with the total rewritten whatever its value.
ApplyLockKeepZero(w, lock_hash, info) ==
    LET w1 == put_pair(w, "GlobalHash", lock_hash, "Lock")
        w2 == IF info.script_opt # None
              THEN put_pair(w1, "LockScript", lock_hash, info.script_opt[1])
              ELSE w1
        w3 == IF info.address_opt # None
              THEN put_pair(w2, "SecpAddrLock", info.address_opt[1], lock_hash)
              ELSE w2
        w4 == IF w3.ok
              THEN [w3 EXCEPT !.s.LockTotalCapacityIndex =
                                  @ \ {<<info.old_total_capacity, lock_hash>>}]
              ELSE w3
        w5 == put_pair(w4, "LockTotalCapacity", lock_hash, info.new_total_capacity)
    IN IF w5.ok /\ info.new_total_capacity > 0
       THEN [w5 EXCEPT !.s.LockTotalCapacityIndex =
                           @ \cup {<<info.new_total_capacity, lock_hash>>}]
       ELSE w5

\* The writes for one lock without the delete of the old ranking entry.
ApplyLockStaleRank(w, lock_hash, info) ==
    LET w1 == put_pair(w, "GlobalHash", lock_hash, "Lock")
        w2 == IF info.script_opt # None
              THEN put_pair(w1, "LockScript", lock_hash, info.script_opt[1])
              ELSE w1
        w3 == IF info.address_opt # None
              THEN put_pair(w2, "SecpAddrLock", info.address_opt[1], lock_hash)
              ELSE w2
    IN IF info.new_total_capacity > 0
       THEN LET w5 == put_pair(w3, "LockTotalCapacity", lock_hash,
                               info.new_total_capacity)
            IN IF w5.ok
               THEN [w5 EXCEPT !.s.LockTotalCapacityIndex =
                                   @ \cup {<<info.new_total_capacity, lock_hash>>}]
               ELSE w5
       ELSE DeleteUnwrap(w3, "LockTotalCapacity", lock_hash)

\* The writes for one lock with the ranking entries of all locks deleted
\* in place of the old entry of this one.
ApplyLockClearRank(w, lock_hash, info) ==
    LET w1 == put_pair(w, "GlobalHash", lock_hash, "Lock")
        w2 == IF info.script_opt # None
              THEN put_pair(w1, "LockScript", lock_hash, info.script_opt[1])
              ELSE w1
        w3 == IF info.address_opt # None
              THEN put_pair(w2, "SecpAddrLock", info.address_opt[1], lock_hash)
              ELSE w2
        w4 == IF w3.ok THEN [w3 EXCEPT !.s.LockTotalCapacityIndex = {}] ELSE w3
    IN IF info.new_total_capacity > 0
       THEN LET w5 == put_pair(w4, "LockTotalCapacity", lock_hash,
                               info.new_total_capacity)
            IN IF w5.ok
               THEN [w5 EXCEPT !.s.LockTotalCapacityIndex =
                                   @ \cup {<<info.new_total_capacity, lock_hash>>}]
               ELSE w5
       ELSE DeleteUnwrap(w4, "LockTotalCapacity", lock_hash)

\* The writes of apply for one touched lock.
ApplyLock(w, lock_hash, info) ==
    LET w1 == put_pair(w, "GlobalHash", lock_hash, "Lock")
        w2 == IF info.script_opt # None
              THEN put_pair(w1, "LockScript", lock_hash, info.script_opt[1])
              ELSE w1
        w3 == IF info.address_opt # None
              THEN put_pair(w2, "SecpAddrLock", info.address_opt[1], lock_hash)
              ELSE w2
        \* the delete of the old ranking entry tolerates its absence
        w4 == IF w3.ok
              THEN [w3 EXCEPT !.s.LockTotalCapacityIndex =
                                  @ \ {<<info.old_total_capacity, lock_hash>>}]
              ELSE w3
    IN IF info.new_total_capacity > 0
       THEN LET w5 == put_pair(w4, "LockTotalCapacity", lock_hash,
                               info.new_total_capacity)
            IN IF w5.ok
               THEN [w5 EXCEPT !.s.LockTotalCapacityIndex =
                                   @ \cup {<<info.new_total_capacity, lock_hash>>}]
               ELSE w5
       ELSE DeleteUnwrap(w4, "LockTotalCapacity", lock_hash)

\* The loop over self.locks (a HashMap: some order of its keys).
RECURSIVE ApplyLocks(_, _, _)
ApplyLocks(w, locks, keys) ==
    IF keys = {} THEN w
    ELSE LET lock_hash == CHOOSE x \in keys : TRUE
         IN ApplyLocks(ApplyLock(w, lock_hash, locks[lock_hash]), locks,
                       keys \ {lock_hash})

\* (x as i64): the low bits, read as a signed number.
AsI64(x) ==
    LET m == x % Pow2(I64Bits)
    IN IF m >= Pow2(I64Bits - 1) THEN m - Pow2(I64Bits) ELSE m

\* The ApplyResult with the difference taken the other way round.
ApplyResultFlipped(d) == [
    chain_capacity |-> d.new_chain_capacity,
    capacity_delta |-> AsI64(d.old_chain_capacity - d.new_chain_capacity),
    txs |-> Len(d.txs),
    cell_added |-> CountCells(d.txs, "outputs"),
    cell_removed |-> CountCells(d.txs, "inputs")]

\* The ApplyResult of a delta.
ApplyResultOf(d) == [
    chain_capacity |-> d.new_chain_capacity,
    capacity_delta |-> AsI64(d.new_chain_capacity - d.old_chain_capacity),
    txs |-> Len(d.txs),
    cell_added |-> CountCells(d.txs, "outputs"),
    cell_removed |-> CountCells(d.txs, "inputs")]

HeaderInfoOf(d, res) == [
    header |-> d.header,
    txs_size |-> res.txs,
    uncles_size |-> d.uncles_size,
    proposals_size |-> d.proposals_size,
    chain_capacity |-> res.chain_capacity,
    capacity_delta |-> res.capacity_delta,
    cell_removed |-> res.cell_removed,
    cell_added |-> res.cell_added]

\* put_pair of a RecentHeader record: the key is the header's number, and
\* the records stay in key order.
PutRecentHeader(headers, info) ==
    IF headers = <<>> \/ headers[Len(headers)].header.number < info.header.number
    THEN Append(headers, info)
    ELSE SelectSeq(headers, LAMBDA h : h.header.number < info.header.number)
         \o <<info>>
         \o SelectSeq(headers, LAMBDA h : h.header.number > info.header.number)

RecentNumbers(headers) == {headers[i].header.number : i \in 1..Len(headers)}

\* store.delete(writer, Key::RecentHeader(old_number)).unwrap()
DeleteRecentHeader(w, old_number) ==
    IF ~w.ok THEN w
    ELSE IF w.s.RecentHeader # <<>> /\ Head(w.s.RecentHeader).header.number = old_number
         THEN [w EXCEPT !.s.RecentHeader = Tail(@)]
         ELSE IF \E i \in 1..Len(w.s.RecentHeader) :
                     w.s.RecentHeader[i].header.number = old_number
              THEN [w EXCEPT !.s.RecentHeader =
                       SelectSeq(@, LAMBDA h : h.header.number # old_number)]
              ELSE [w EXCEPT !.ok = FALSE]

\* The clean-up that deletes nothing.
CleanOldHeadersNone(w, old_headers, i) == w

\* "Clean old header infos": the loop over self.old_headers, from the i-th on.
RECURSIVE CleanOldHeaders(_, _, _)
CleanOldHeaders(w, old_headers, i) ==
    IF i > Len(old_headers) THEN w
    ELSE CleanOldHeaders(DeleteRecentHeader(w, old_headers[i]), old_headers, i + 1)

\* Writes the chain total the block started from.
ApplyHeadersStaleTotal(w, d) ==
    LET w1 == IF w.ok THEN [w EXCEPT !.s.TotalCapacity = Some(d.old_chain_capacity)]
              ELSE w
        header_info == HeaderInfoOf(d, ApplyResultOf(d))
        w2 == IF w1.ok
              THEN [w1 EXCEPT !.s.RecentHeader = PutRecentHeader(@, header_info)]
              ELSE w1
        w3 == CleanOldHeaders(w2, d.old_headers, 1)
    IN IF w3.ok THEN [w3 EXCEPT !.s.LastHeader = Some(d.header)] ELSE w3

\* Leaves the last-header pointer where it was.
ApplyHeadersNoLast(w, d) ==
    LET w1 == IF w.ok THEN [w EXCEPT !.s.TotalCapacity = Some(d.new_chain_capacity)]
              ELSE w
        header_info == HeaderInfoOf(d, ApplyResultOf(d))
        w2 == IF w1.ok
              THEN [w1 EXCEPT !.s.RecentHeader = PutRecentHeader(@, header_info)]
              ELSE w1
    IN CleanOldHeaders(w2, d.old_headers, 1)

\* The chain total, the new RecentHeader, the eviction and the last header.
ApplyHeaders(w, d) ==
    LET w1 == IF w.ok THEN [w EXCEPT !.s.TotalCapacity = Some(d.new_chain_capacity)]
              ELSE w
        header_info == HeaderInfoOf(d, ApplyResultOf(d))
        w2 == IF w1.ok
              THEN [w1 EXCEPT !.s.RecentHeader = PutRecentHeader(@, header_info)]
              ELSE w1
        w3 == CleanOldHeaders(w2, d.old_headers, 1)
    IN IF w3.ok THEN [w3 EXCEPT !.s.LastHeader = Some(d.header)] ELSE w3

\* apply(&self, store, writer): [s, ok], the writer's view afterwards.
apply(d, s) ==
    ApplyHeaders(ApplyLocks(ApplyTxs(Writing(s), d.txs, 1), d.locks, DOMAIN d.locks), d)

\* ------------------------------------------- the writes of apply, one by one

\* One store call of apply: a put_pair ("put"), a delete that is unwrapped
\* ("delete") or the delete whose error is only logged ("remove").
Op(kind, table, key, value) ==
    [kind |-> kind, table |-> table, key |-> key, value |-> value]

\* The calls for one consumed cell.
InputOps(tx, c) ==
    <<Op("put", "LockTx", <<c.lock_hash, c.number, c.index.tx_index>>, tx.tx_hash),
      Op("delete", "LiveCellMap", c.out_point, None),
      Op("delete", "LiveCellIndex", <<c.number, c.index>>, None),
      Op("delete", "LockLiveCellIndex", <<c.lock_hash, c.number, c.index>>, None)>>

\* The calls for one produced cell, its history entry keyed by the block
\* alone.
OutputOpsKeyedByBlock(tx, c) ==
    <<Op("put", "LockTx", <<c.lock_hash, c.number, 0>>, tx.tx_hash),
      Op("put", "LiveCellMap", c.out_point, c),
      Op("put", "LiveCellIndex", <<c.number, c.index>>, c.out_point),
      Op("put", "LockLiveCellIndex", <<c.lock_hash, c.number, c.index>>, c.out_point)>>

\* The calls for one produced cell.
OutputOps(tx, c) ==
    <<Op("put", "LockTx", <<c.lock_hash, c.number, c.index.tx_index>>, tx.tx_hash),
      Op("put", "LiveCellMap", c.out_point, c),
      Op("put", "LiveCellIndex", <<c.number, c.index>>, c.out_point),
      Op("put", "LockLiveCellIndex", <<c.lock_hash, c.number, c.index>>, c.out_point)>>

RECURSIVE InputsOps(_, _)
InputsOps(tx, i) ==
    IF i > Len(tx.inputs) THEN <<>>
    ELSE InputOps(tx, tx.inputs[i]) \o InputsOps(tx, i + 1)

RECURSIVE OutputsOps(_, _)
OutputsOps(tx, j) ==
    IF j > Len(tx.outputs) THEN <<>>
    ELSE OutputOps(tx, tx.outputs[j]) \o OutputsOps(tx, j + 1)

\* The calls of the loop over self.txs, from the t-th transaction on.
RECURSIVE TxsOps(_, _)
TxsOps(txs, t) ==
    IF t > Len(txs) THEN <<>>
    ELSE <<Op("put", "TxMap", txs[t].tx_hash, to_thin(txs[t]))>>
         \o InputsOps(txs[t], 1) \o OutputsOps(txs[t], 1) \o TxsOps(txs, t + 1)

\* The calls for one touched lock.
LockOps(lock_hash, info) ==
    <<Op("put", "GlobalHash", lock_hash, "Lock")>>
    \o (IF info.script_opt # None
        THEN <<Op("put", "LockScript", lock_hash, info.script_opt[1])>> ELSE <<>>)
    \o (IF info.address_opt # None
        THEN <<Op("put", "SecpAddrLock", info.address_opt[1], lock_hash)>> ELSE <<>>)
    \o <<Op("remove", "LockTotalCapacityIndex",
            <<info.old_total_capacity, lock_hash>>, None)>>
    \o (IF info.new_total_capacity > 0
        THEN <<Op("put", "LockTotalCapacity", lock_hash, info.new_total_capacity),
               Op("put", "LockTotalCapacityIndex",
                  <<info.new_total_capacity, lock_hash>>, None)>>
        ELSE <<Op("delete", "LockTotalCapacity", lock_hash, None)>>)

\* The calls of the loop over self.locks, in the order ApplyLocks takes.
RECURSIVE LocksOps(_, _)
LocksOps(locks, keys) ==
    IF keys = {} THEN <<>>
    ELSE LockOps(CHOOSE x \in keys : TRUE, locks[CHOOSE x \in keys : TRUE])
         \o LocksOps(locks, keys \ {CHOOSE x \in keys : TRUE})

\* The calls of apply up to the end of the loop over self.locks.
ApplyOps(d) == TxsOps(d.txs, 1) \o LocksOps(d.locks, DOMAIN d.locks)

\* One call on the writer.
Do(w, o) ==
    IF ~w.ok THEN w
    ELSE IF o.table = "LockTotalCapacityIndex"
         THEN (IF o.kind = "put"
               THEN [w EXCEPT !.s.LockTotalCapacityIndex = @ \cup {o.key}]
               ELSE [w EXCEPT !.s.LockTotalCapacityIndex = @ \ {o.key}])
         ELSE IF o.kind = "put" THEN put_pair(w, o.table, o.key, o.value)
              ELSE DeleteUnwrap(w, o.table, o.key)

\* The calls of a list in its order, from the i-th on.
RECURSIVE Run(_, _, _)
Run(w, ops, i) == IF i > Len(ops) THEN w ELSE Run(Do(w, ops[i]), ops, i + 1)

\* ------------------------------------------------------------ the block source

\* The outputs a transaction may carry: a lock script and a capacity.
Outputs == {[lock |-> ScriptA, capacity |-> 5000],
            [lock |-> ScriptA, capacity |-> 2000],
            [lock |-> ScriptB, capacity |-> 2900]}

SeqsUpTo(S, n) == UNION {[1..k -> S] : k \in 0..n}

\* Every out-point some applied transaction has produced, live or spent.
ProducedIn(s) ==
    UNION {{s.TxMap[h].outputs[i] : i \in 1..Len(s.TxMap[h].outputs)} :
           h \in DOMAIN s.TxMap}

\* What an input may reference: nothing (previous_output.cell is None), a
\* cell some applied transaction produced, or the first output of the first
\* transaction of the block itself.
InputsOf(s, number) ==
    {[cell |-> None]} \cup
    {[cell |-> Some(p)] : p \in ProducedIn(s) \cup {CellOutPoint(TxHash(number, 0), 0)}}

TxWeight(tx) == Len(tx.inputs) + Len(tx.outputs)

TxsWithin(s, number, l, budget) ==
    {tx \in [inputs : SeqsUpTo(InputsOf(s, number), l.inputs),
             outputs : SeqsUpTo(l.outputset, l.outputs)] :
        TxWeight(tx) > 0 /\ TxWeight(tx) <= budget}

\* The transaction lists of at most n transactions within the budget.
RECURSIVE TxLists(_, _, _, _, _)
TxLists(s, number, l, n, budget) ==
    {<<>>} \cup
    (IF n = 0 THEN {}
     ELSE UNION {{<<tx>> \o rest :
                     rest \in TxLists(s, number, l, n - 1, budget - TxWeight(tx))} :
                 tx \in TxsWithin(s, number, l, budget)})

RECURSIVE BlockWeight(_)
BlockWeight(txs) == IF txs = <<>> THEN 0 ELSE TxWeight(Head(txs)) + BlockWeight(Tail(txs))

\* The numbers the next block may carry: the one after the last block's (0
\* for the first block), or one of the lim.gap - 1 numbers after that.
NextNumbers ==
    LET first == IF chain = <<>> THEN 0 ELSE chain[Len(chain)].number + 1
    IN first..(first + lim.gap - 1)

BlocksAt(number) ==
    {[number |-> number, timestamp |-> number, txs |-> txs,
      uncles |-> uncles, proposals |-> 0] :
        txs \in TxLists(committed, number, lim, lim.txs, lim.cells - used),
        uncles \in lim.uncles}

\* The blocks the source may deliver next: numbered consecutively from 0
\* when lim.gap is 1.
NextBlocks == UNION {BlocksAt(number) : number \in NextNumbers}

MainLimits == [blocks |-> MaxBlocks, txs |-> MaxTxs, inputs |-> MaxInputs,
               outputs |-> MaxOutputs, cells |-> MaxCells,
               outputset |-> Outputs, reader |-> FALSE, overflow_checks |-> TRUE,
               gap |-> 1, uncles |-> {0}]

\* ------------------------------------------------------------------ the driver

\* The engine on an empty store, with the limits of its block source.
EngineInit(l) ==
    /\ store = EmptyStore
    /\ committed = EmptyStore
    /\ pc = "idle"
    /\ block = None
    /\ delta = None
    /\ result = None
    /\ panic = "none"
    /\ chain = <<>>
    /\ used = 0
    /\ call = "none"
    /\ snap = None
    /\ lim = l

InitWith(l) == EngineInit(l) /\ codec = None /\ deploy = None

Init == InitWith(MainLimits)

\* from_block persisting the chain total it computed.
FromBlockEager ==
    /\ pc = "idle"
    /\ Len(chain) < lim.blocks
    /\ \E b \in NextBlocks :
          LET r == from_block(b, store)
          IN /\ block' = Some(b)
             /\ delta' = r.delta
             /\ panic' = r.panic
             /\ pc' = IF r.ok THEN "diffed" ELSE "aborted"
             /\ used' = used + BlockWeight(b.txs)
             /\ store' = IF r.ok
                         THEN [store EXCEPT !.TotalCapacity =
                                  Some(r.delta[1].new_chain_capacity)]
                         ELSE store
    /\ call' = "from_block"
    /\ UNCHANGED <<committed, result, chain, snap, lim, codec, deploy>>

\* The driver opens a writer and calls from_block on the next block; a panic
\* inside it ends the process.
FromBlock ==
    /\ pc = "idle"
    /\ Len(chain) < lim.blocks
    /\ \E b \in NextBlocks :
          LET r == from_block(b, store)
          IN /\ block' = Some(b)
             /\ delta' = r.delta
             /\ panic' = r.panic
             /\ pc' = IF r.ok THEN "diffed" ELSE "aborted"
             /\ used' = used + BlockWeight(b.txs)
    /\ call' = "from_block"
    /\ UNCHANGED <<store, committed, result, chain, snap, lim, codec, deploy>>

\* apply with every write going straight to the committed store.
ApplyWriteThrough ==
    /\ pc = "diffed"
    /\ LET w == apply(delta[1], store)
       IN /\ store' = w.s
          /\ committed' = w.s
          /\ pc' = IF w.ok THEN "applied" ELSE "aborted"
          /\ panic' = IF w.ok THEN panic ELSE "delete_missing"
          /\ result' = IF w.ok THEN Some(ApplyResultOf(delta[1])) ELSE result
    /\ call' = "apply"
    /\ UNCHANGED <<block, delta, chain, used, snap, lim, codec, deploy>>

\* apply callable again on a delta that has been applied.
ApplyAgain ==
    /\ pc \in {"diffed", "applied"}
    /\ LET w == apply(delta[1], store)
       IN /\ store' = w.s
          /\ pc' = IF w.ok THEN "applied" ELSE "aborted"
          /\ panic' = IF w.ok THEN panic ELSE "delete_missing"
          /\ result' = IF w.ok THEN Some(ApplyResultOf(delta[1])) ELSE result
    /\ call' = "apply"
    /\ UNCHANGED <<committed, block, delta, chain, used, snap, lim, codec, deploy>>

\* The driver calls apply with the delta and the same writer. A store call
\* that fails is unwrapped: the panic leaves the writer uncommitted.
Apply ==
    /\ pc = "diffed"
    /\ LET w == apply(delta[1], store)
       IN /\ store' = w.s
          /\ pc' = IF w.ok THEN "applied" ELSE "aborted"
          /\ panic' = IF w.ok THEN panic ELSE "delete_missing"
          /\ result' = IF w.ok THEN Some(ApplyResultOf(delta[1])) ELSE result
    /\ call' = "apply"
    /\ UNCHANGED <<committed, block, delta, chain, used, snap, lim, codec, deploy>>

\* The driver commits the writer: the block's writes become the store.
Commit ==
    /\ pc = "applied"
    /\ committed' = store
    /\ chain' = Append(chain, block[1])
    /\ pc' = "idle"
    /\ block' = None
    /\ delta' = None
    /\ call' = "commit"
    /\ UNCHANGED <<store, result, panic, used, snap, lim, codec, deploy>>

\* A rollback that returns without doing anything.
RollbackNoOp ==
    /\ pc \in {"diffed", "applied"}
    /\ call # "_rollback"
    /\ call' = "_rollback"
    /\ UNCHANGED <<store, committed, pc, block, delta, result, panic, chain, used,
                   snap, lim, codec, deploy>>

\* _rollback(&self, store, writer): unimplemented!()
_rollback ==
    /\ pc \in {"diffed", "applied"}
    /\ pc' = "aborted"
    /\ panic' = "unimplemented"
    /\ call' = "_rollback"
    /\ UNCHANGED <<store, committed, block, delta, result, chain, used, snap, lim, codec, deploy>>

Next == FromBlock \/ Apply \/ Commit \/ _rollback

Spec == Init /\ [][Next]_vars

\* ------------------------------------------- apply beside a read-only query

ReaderLimits == [blocks |-> ReaderBlocks, txs |-> MaxTxs, inputs |-> MaxInputs,
                 outputs |-> MaxOutputs, cells |-> ReaderCells,
                 outputset |-> Outputs, reader |-> TRUE, overflow_checks |-> TRUE,
                 gap |-> 1, uncles |-> {0}]

\* The first part of apply writing straight to the committed store.
ApplyStepTxsThrough ==
    /\ pc = "diffed"
    /\ LET w == ApplyTxs(Writing(store), delta[1].txs, 1)
       IN /\ store' = w.s
          /\ committed' = w.s
          /\ pc' = IF w.ok THEN "txs" ELSE "aborted"
          /\ panic' = IF w.ok THEN panic ELSE "delete_missing"
    /\ call' = "apply"
    /\ UNCHANGED <<block, delta, result, chain, used, snap, lim, codec, deploy>>

\* apply up to the end of "Update cells and transactions".
ApplyStepTxs ==
    /\ pc = "diffed"
    /\ LET w == ApplyTxs(Writing(store), delta[1].txs, 1)
       IN /\ store' = w.s
          /\ pc' = IF w.ok THEN "txs" ELSE "aborted"
          /\ panic' = IF w.ok THEN panic ELSE "delete_missing"
    /\ call' = "apply"
    /\ UNCHANGED <<committed, block, delta, result, chain, used, snap, lim, codec, deploy>>

\* apply over the touched locks.
ApplyStepLocks ==
    /\ pc = "txs"
    /\ LET w == ApplyLocks(Writing(store), delta[1].locks, DOMAIN delta[1].locks)
       IN /\ store' = w.s
          /\ pc' = IF w.ok THEN "locks" ELSE "aborted"
          /\ panic' = IF w.ok THEN panic ELSE "delete_missing"
    /\ call' = "apply"
    /\ UNCHANGED <<committed, block, delta, result, chain, used, snap, lim, codec, deploy>>

\* apply from the chain total to its return.
ApplyStepHeaders ==
    /\ pc = "locks"
    /\ LET w == ApplyHeaders(Writing(store), delta[1])
       IN /\ store' = w.s
          /\ pc' = IF w.ok THEN "applied" ELSE "aborted"
          /\ panic' = IF w.ok THEN panic ELSE "delete_missing"
          /\ result' = IF w.ok THEN Some(ApplyResultOf(delta[1])) ELSE result
    /\ call' = "apply"
    /\ UNCHANGED <<committed, block, delta, chain, used, snap, lim, codec, deploy>>

\* A read-only query opens a snapshot: it reads the committed store.
ReadSnapshot ==
    /\ lim.reader
    /\ snap # Some(committed)
    /\ snap' = Some(committed)
    /\ UNCHANGED <<store, committed, pc, block, delta, result, panic, chain, used,
                   call, lim, codec, deploy>>

ReaderInit == InitWith(ReaderLimits)

ReaderNext ==
    FromBlock \/ ApplyStepTxs \/ ApplyStepLocks \/ ApplyStepHeaders \/ Commit
    \/ ReadSnapshot

ReaderSpec == ReaderInit /\ [][ReaderNext]_vars

\* ------------------------------------------------- a long run of empty blocks

RetentionLimits == [blocks |-> RetentionBlocks, txs |-> 0,
                    inputs |-> 0, outputs |-> 0, cells |-> 0,
                    outputset |-> {}, reader |-> FALSE, overflow_checks |-> TRUE,
                    gap |-> 1, uncles |-> {0}]

RetentionInit == InitWith(RetentionLimits)

RetentionNext == FromBlock \/ Apply \/ Commit

RetentionSpec == RetentionInit /\ [][RetentionNext]_vars

\* ------------------------- empty blocks with skipped numbers and uncle counts

HeaderLimits == [blocks |-> HeaderBlocks, txs |-> 0,
                 inputs |-> 0, outputs |-> 0, cells |-> 0,
                 outputset |-> {}, reader |-> FALSE, overflow_checks |-> TRUE,
                 gap |-> MaxGap, uncles |-> {0, 1}]

HeaderInit == InitWith(HeaderLimits)

HeaderNext == FromBlock \/ Apply \/ Commit

HeaderSpec == HeaderInit /\ [][HeaderNext]_vars

\* ------------------------------------------- the shapes of lock scripts

\* One output for each shape of lock script.
ShapeOutputs == {[lock |-> script, capacity |-> 1000] : script \in ScriptShapes}

ShapeLimits == [blocks |-> ShapeBlocks, txs |-> 1, inputs |-> 1,
                outputs |-> MaxOutputs, cells |-> ShapeCells,
                outputset |-> ShapeOutputs, reader |-> FALSE,
                overflow_checks |-> TRUE, gap |-> 1, uncles |-> {0}]

ShapeInit == InitWith(ShapeLimits)

ShapeNext == FromBlock \/ Apply \/ Commit

ShapeSpec == ShapeInit /\ [][ShapeNext]_vars

\* ------------------------------- capacities at the edge of the integer widths

\* 2^63 on the scale of I64Bits: the least capacity that does not fit in i64.
HalfU64 == Pow2(I64Bits - 1)

\* Outputs whose capacities reach the widths: any u64 is a capacity a block
\* can carry (output.capacity.as_u64()).
WideOutputs == {[lock |-> ScriptA, capacity |-> HalfU64],
                [lock |-> ScriptB, capacity |-> HalfU64],
                [lock |-> ScriptA, capacity |-> 1]}

WideLimits(checks) == [blocks |-> WideBlocks, txs |-> 1, inputs |-> 1,
                       outputs |-> MaxOutputs, cells |-> WideCells,
                       outputset |-> WideOutputs, reader |-> FALSE,
                       overflow_checks |-> checks, gap |-> 1, uncles |-> {0}]

\* Either build profile.
WideInit == \E checks \in BOOLEAN : InitWith(WideLimits(checks))

WideNext == FromBlock \/ Apply \/ Commit

WideSpec == WideInit /\ [][WideNext]_vars

\* ------------------------------------------------ the codec of a CellIndex

\* A u32 as its two 16-bit halves, so that the whole range 0..2^32 - 1 is
\* within reach of 32-bit arithmetic: the number is hi * 65536 + lo.
U32(hi, lo) == [hi |-> hi, lo |-> lo]

\* The halves the fields of the encoded keys are drawn from: both ends of
\* the range and the values around a byte boundary.
HalfSamples == {0, 1, 255, 256, 65535}

U32Samples == {U32(hi, lo) : hi \in HalfSamples, lo \in HalfSamples}

\* u32::to_be_bytes: four bytes, the most significant first.
U32ToBeBytes(x) == <<x.hi \div 256, x.hi % 256, x.lo \div 256, x.lo % 256>>

\* u32::from_be_bytes
U32FromBeBytes(b) == U32(b[1] * 256 + b[2], b[3] * 256 + b[4])

\* to_bytes with the two fields in the other order.
CellIndexToBytesSwapped(index) ==
    U32ToBeBytes(index.output_index) \o U32ToBeBytes(index.tx_index)

\* u32::to_le_bytes: four bytes, the least significant first.
U32ToLeBytes(x) == <<x.lo % 256, x.lo \div 256, x.hi % 256, x.hi \div 256>>

\* to_bytes with each field's bytes least significant first.
CellIndexToBytesLittleEndian(index) ==
    U32ToLeBytes(index.tx_index) \o U32ToLeBytes(index.output_index)

\* CellIndex::to_bytes
CellIndexToBytes(index) ==
    U32ToBeBytes(index.tx_index) \o U32ToBeBytes(index.output_index)

\* CellIndex::from_bytes(bytes: [u8; 8])
CellIndexFromBytes(bytes) ==
    [tx_index |-> U32FromBeBytes(SubSeq(bytes, 1, 4)),
     output_index |-> U32FromBeBytes(SubSeq(bytes, 5, 8))]

CodecInit ==
    /\ EngineInit(MainLimits)
    /\ deploy = None
    /\ \E tx_index \in U32Samples, output_index \in U32Samples :
          codec = [at |-> "key", key |-> CellIndexNew(tx_index, output_index),
                   bytes |-> <<>>, back |-> None]

\* The key component is encoded.
ToBytes ==
    /\ codec.at = "key"
    /\ codec' = [codec EXCEPT !.at = "bytes", !.bytes = CellIndexToBytes(codec.key)]
    /\ UNCHANGED <<store, committed, pc, block, delta, result, panic, chain, used,
                   call, snap, lim, deploy>>

\* The bytes are decoded again.
FromBytes ==
    /\ codec.at = "bytes"
    /\ codec' = [codec EXCEPT !.at = "back",
                              !.back = Some(CellIndexFromBytes(codec.bytes))]
    /\ UNCHANGED <<store, committed, pc, block, delta, result, panic, chain, used,
                   call, snap, lim, deploy>>

CodecNext == ToBytes \/ FromBytes

CodecSpec == CodecInit /\ [][CodecNext]_vars

\* ----------------------------------------- the order of the encoded keys

OrderBlocks == 1

\* The one output the blocks of this part carry.
OrderOutputs == {[lock |-> ScriptA, capacity |-> 1000]}

\* Blocks of up to MaxTxs transactions of up to MaxOutputs outputs: every
\* position a cell can take in them.
OrderLimits == [blocks |-> OrderBlocks, txs |-> MaxTxs, inputs |-> 0,
                outputs |-> MaxOutputs, cells |-> MaxCells,
                outputset |-> OrderOutputs, reader |-> FALSE,
                overflow_checks |-> TRUE, gap |-> 1, uncles |-> {0}]

\* The engine next to a key that is encoded and decoded.
OrderInit ==
    /\ EngineInit(OrderLimits)
    /\ deploy = None
    /\ \E tx_index \in U32Samples, output_index \in U32Samples :
          codec = [at |-> "key", key |-> CellIndexNew(tx_index, output_index),
                   bytes |-> <<>>, back |-> None]

OrderNext == FromBlock \/ Apply \/ Commit \/ ToBytes \/ FromBytes

OrderSpec == OrderInit /\ [][OrderNext]_vars

\* -------------------------------------------------------- deploy apply-txs

MaxRuns == 2

\* The info files apply-txs may be given: each transaction present or not,
\* and the recipe to snapshot.
ApplyInfos ==
    {[cell_tx |-> c, dep_group_tx |-> d, new_recipe |-> r] :
        c \in {None, Some("cell_tx")}, d \in {None, Some("dep_group_tx")},
        r \in {"recipe1", "recipe2"}}

\* The position after a step that ignores the outcome of sending.
ApplyTxsStepIgnoringSend(at, ok) ==
    CASE at = "open" -> IF ok THEN "build" ELSE "failed"
      [] at = "build" -> IF ok THEN "send_cell" ELSE "failed"
      [] at = "send_cell" -> "send_dep"
      [] at = "send_dep" -> "snapshot"
      [] at = "snapshot" -> IF ok THEN "done" ELSE "failed"

\* The position of apply-txs after the step at a position: every step
\* returns the error of a failure with `?`.
ApplyTxsStep(at, ok) ==
    CASE at = "open" -> IF ok THEN "build" ELSE "failed"
      [] at = "build" -> IF ok THEN "send_cell" ELSE "failed"
      [] at = "send_cell" -> IF ok THEN "send_dep" ELSE "failed"
      [] at = "send_dep" -> IF ok THEN "snapshot" ELSE "failed"
      [] at = "snapshot" -> IF ok THEN "done" ELSE "failed"

\* snapshot_name(): the time of the call, to the second.
snapshot_name(now) == now

\* snapshot_recipe: the file is created only if there is none of its name
\* (create_new), and a failure of write_all leaves it incomplete. The
\* outcome is [ok, dir].
snapshot_recipe(dir, path, recipe, written) ==
    IF \E f \in dir : f.name = path
    THEN [ok |-> FALSE, dir |-> dir]
    ELSE [ok |-> written,
          dir |-> dir \cup {[name |-> path, recipe |-> recipe, complete |-> written]}]

\* apply-txs is invoked on an info file, with an empty migration directory
\* and nothing sent to the node.
ApplyTxsInit ==
    /\ EngineInit(MainLimits)
    /\ codec = None
    /\ \E info \in ApplyInfos :
          deploy = [cmd |-> "apply-txs", at |-> "open", info |-> info, run |-> 1,
                    now |-> 0, sent |-> <<>>, dir |-> {}, failed_at |-> "none"]

EngineIdle ==
    UNCHANGED <<store, committed, pc, block, delta, result, panic, chain, used,
                call, snap, lim, codec>>

\* The outcome of a step moves the command on or ends it.
ApplyTxsMove(at, ok) ==
    [deploy EXCEPT !.at = ApplyTxsStep(at, ok),
                   !.failed_at = IF ApplyTxsStep(at, ok) = "failed" THEN at ELSE @]

\* The info file is opened and parsed.
OpenInfo ==
    /\ deploy.cmd = "apply-txs" /\ deploy.at = "open"
    /\ \E ok \in BOOLEAN : deploy' = ApplyTxsMove("open", ok)
    /\ EngineIdle

\* Both transactions are checked and built before any is sent.
BuildTxs ==
    /\ deploy.cmd = "apply-txs" /\ deploy.at = "build"
    /\ \E ok \in BOOLEAN : deploy' = ApplyTxsMove("build", ok)
    /\ EngineIdle

\* send_transaction of the cell transaction, if there is one.
SendCellTx ==
    /\ deploy.cmd = "apply-txs" /\ deploy.at = "send_cell"
    /\ IF deploy.info.cell_tx = None
       THEN deploy' = ApplyTxsMove("send_cell", TRUE)
       ELSE \E ok \in BOOLEAN :
               deploy' = [ApplyTxsMove("send_cell", ok) EXCEPT
                             !.sent = IF ok THEN Append(@, [tx |-> "cell_tx",
                                                            run |-> deploy.run])
                                      ELSE @]
    /\ EngineIdle

\* send_transaction of the dep_group transaction, if there is one.
SendDepGroupTx ==
    /\ deploy.cmd = "apply-txs" /\ deploy.at = "send_dep"
    /\ IF deploy.info.dep_group_tx = None
       THEN deploy' = ApplyTxsMove("send_dep", TRUE)
       ELSE \E ok \in BOOLEAN :
               deploy' = [ApplyTxsMove("send_dep", ok) EXCEPT
                             !.sent = IF ok THEN Append(@, [tx |-> "dep_group_tx",
                                                            run |-> deploy.run])
                                      ELSE @]
    /\ EngineIdle

\* The new recipe is written to the migration directory.
SnapshotRecipe ==
    /\ deploy.cmd = "apply-txs" /\ deploy.at = "snapshot"
    /\ \E written \in BOOLEAN :
          LET r == snapshot_recipe(deploy.dir, snapshot_name(deploy.now),
                                   deploy.info.new_recipe, written)
          IN deploy' = [ApplyTxsMove("snapshot", r.ok) EXCEPT !.dir = r.dir]
    /\ EngineIdle

\* The command is run again, on any info file, within the same second or
\* later.
ApplyTxsAgain ==
    /\ deploy.cmd = "apply-txs" /\ deploy.at \in {"done", "failed"}
    /\ deploy.run < MaxRuns
    /\ \E info \in ApplyInfos, later \in 0..1 :
          deploy' = [deploy EXCEPT !.at = "open", !.info = info, !.run = @ + 1,
                                   !.now = @ + later, !.failed_at = "none"]
    /\ EngineIdle

ApplyTxsNext ==
    OpenInfo \/ BuildTxs \/ SendCellTx \/ SendDepGroupTx \/ SnapshotRecipe
    \/ ApplyTxsAgain

ApplyTxsSpec == ApplyTxsInit /\ [][ApplyTxsNext]_vars

\* ---------------------------------------------------------- deploy gen-txs

MaxDeployCells == 2
MaxDepGroups == 2

\* blake2b_256 of cell data: a digest that tells different data apart.
blake2b_256(data) == <<"blake2b_256", data>>

LockScripts == {"lockA", "lockB"}

\* The cells of a deployment: data in a file, or a cell already on chain.
CellConfigs ==
    {[name |-> n, location |-> "file", data |-> d, enable_type_id |-> t] :
        n \in {"a", "b"}, d \in {"d1", "d2"}, t \in BOOLEAN}
    \cup {[name |-> n, location |-> "out_point", data |-> "none",
           enable_type_id |-> FALSE] : n \in {"a", "b"}}

\* The recipes of a snapshot, each with the cell the chain holds at its
\* out-point: the data there is "d1".
CellRecipeShapes ==
    {[name |-> n, type_id |-> t, lock |-> l, data_hash |-> blake2b_256("d1")] :
        n \in {"a", "b"}, t \in BOOLEAN, l \in LockScripts}

\* The i-th recipe of a snapshot locates its cell at an out-point of its own.
Located(shapes) ==
    [i \in 1..Len(shapes) |->
        [name |-> shapes[i].name, type_id |-> shapes[i].type_id,
         lock |-> shapes[i].lock, data_hash |-> shapes[i].data_hash,
         out_point |-> <<"old", shapes[i].name, i>>]]

\* recipes.iter().map(|recipe| (&recipe.name, (recipe, true))).collect(): of
\* two recipes of one name the later one stays.
RECURSIVE RecipesMap(_, _)
RecipesMap(recipes, i) ==
    IF i = 0 THEN EmptyMap
    ELSE MapPut(RecipesMap(recipes, i - 1), recipes[i].name, recipes[i])

\* A StateChange: the fields a kind does not have are None.
StateChange(kind, name, config, old_recipe, data_hash, output_index) ==
    [kind |-> kind, name |-> name, config |-> config, old_recipe |-> old_recipe,
     data_hash |-> data_hash, output_index |-> output_index]

\* StateChange::has_new_output
has_new_output(change) == change.kind \in {"Changed", "NewAdded"}

\* StateChange::has_new_recipe
has_new_recipe(change) == change.kind \in {"Changed", "NewAdded", "Unchanged"}

\* The counter moving on after every change that reads it.
NextOutputIndexAfterMatch(output_index, change) ==
    IF change.kind = "Reference" THEN output_index ELSE output_index + 1

\* if change.has_new_output() { output_index += 1; }
NextOutputIndex(output_index, change) ==
    IF has_new_output(change) THEN output_index + 1 ELSE output_index

\* The change of a cell whose data is in a file.
CellChangeOf(lock_script, cell, map, output_index) ==
    IF cell.name \in DOMAIN map
    THEN IF /\ blake2b_256(cell.data) = map[cell.name].data_hash
            /\ lock_script = map[cell.name].lock
            /\ map[cell.name].type_id = cell.enable_type_id
         THEN StateChange("Unchanged", cell.name, Some(cell), Some(map[cell.name]),
                          Some(blake2b_256(cell.data)), None)
         ELSE StateChange("Changed", cell.name, Some(cell), Some(map[cell.name]),
                          Some(blake2b_256(cell.data)), Some(output_index))
    ELSE StateChange("NewAdded", cell.name, Some(cell), None,
                     Some(blake2b_256(cell.data)), Some(output_index))

\* A change pushed: acc is [ok, changes, output_index, kept], kept the names
\* whose recipe is no longer marked removed.
Pushed(acc, change, keeps) ==
    [ok |-> TRUE, changes |-> Append(acc.changes, change),
     output_index |-> NextOutputIndex(acc.output_index, change),
     kept |-> acc.kept \cup keeps]

\* The loop over the configured cells, from the i-th on. io tells whether
\* the files can be read and whether the cells of the recipes are live.
RECURSIVE LoadCellsLoop(_, _, _, _, _, _)
LoadCellsLoop(acc, lock_script, cells, map, i, io) ==
    IF ~acc.ok \/ i > Len(cells) THEN acc
    ELSE IF cells[i].location = "out_point"
    THEN LoadCellsLoop(Pushed(acc, StateChange("Reference", cells[i].name,
                                               Some(cells[i]), None, None, None), {}),
                       lock_script, cells, map, i + 1, io)
    ELSE IF ~io.readable \/ (cells[i].name \in DOMAIN map /\ ~io.live)
    THEN [acc EXCEPT !.ok = FALSE]
    ELSE LoadCellsLoop(Pushed(acc, CellChangeOf(lock_script, cells[i], map,
                                                acc.output_index),
                              {cells[i].name} \cap DOMAIN map),
                       lock_script, cells, map, i + 1, io)

\* The Removed changes of the recipes still marked, in the order the map
\* iterates them.
RECURSIVE RemovedChanges(_, _)
RemovedChanges(map, names) ==
    IF names = {} THEN <<>>
    ELSE LET n == CHOOSE x \in names : TRUE
         IN <<StateChange("Removed", n, None, Some(map[n]), None, None)>>
            \o RemovedChanges(map, names \ {n})

Looped(acc, map) ==
    [ok |-> acc.ok,
     changes |-> IF acc.ok
                 THEN acc.changes \o RemovedChanges(map, DOMAIN map \ acc.kept)
                 ELSE <<>>]

\* load_cells(rpc_client, lock_script, cells, cell_recipes_opt): [ok, changes]
load_cells(lock_script, cells, cell_recipes_opt, io) ==
    Looped(LoadCellsLoop([ok |-> TRUE, changes |-> <<>>, output_index |-> 0,
                          kept |-> {}],
                         lock_script, cells,
                         IF cell_recipes_opt = None THEN EmptyMap
                         ELSE RecipesMap(cell_recipes_opt[1], Len(cell_recipes_opt[1])),
                         1, io),
           IF cell_recipes_opt = None THEN EmptyMap
           ELSE RecipesMap(cell_recipes_opt[1], Len(cell_recipes_opt[1])))

\* The out-point of the recipe build_new_recipe makes of a change: the old
\* one of an unchanged cell, the output of the cell transaction otherwise.
NewRecipeOf(change) ==
    [name |-> change.name,
     out_point |-> IF change.kind = "Unchanged" THEN change.old_recipe[1].out_point
                   ELSE <<"cell_tx", "", change.output_index[1]>>]

\* build_new_cell_recipes: one recipe per change that has one, in order.
RECURSIVE build_new_cell_recipes(_)
build_new_cell_recipes(cell_changes) ==
    IF cell_changes = <<>> THEN <<>>
    ELSE (IF has_new_recipe(Head(cell_changes))
          THEN <<NewRecipeOf(Head(cell_changes))>> ELSE <<>>)
         \o build_new_cell_recipes(Tail(cell_changes))

\* refs_map: the out-point a Reference change names, by cell name.
RECURSIVE RefsMap(_, _)
RefsMap(cell_changes, i) ==
    IF i = 0 THEN EmptyMap
    ELSE IF cell_changes[i].kind = "Reference"
    THEN MapPut(RefsMap(cell_changes, i - 1), cell_changes[i].name,
                <<"ref", cell_changes[i].name, 0>>)
    ELSE RefsMap(cell_changes, i - 1)

\* The out-points of the cells of a dep group: those of the new recipes
\* first, those of the references second. names: the cell names found.
OutPointsOf(dep_group, new_map, refs_map) ==
    [k \in 1..Len(dep_group.cells) |->
        IF dep_group.cells[k] \in DOMAIN new_map
        THEN new_map[dep_group.cells[k]].out_point
        ELSE refs_map[dep_group.cells[k]]]

DepGroupChangeOf(lock_script, dep_group, data_hash, map, output_index) ==
    IF dep_group.name \in DOMAIN map
    THEN IF data_hash = map[dep_group.name].data_hash
            /\ lock_script = map[dep_group.name].lock
         THEN StateChange("Unchanged", dep_group.name, Some(dep_group),
                          Some(map[dep_group.name]), Some(data_hash), None)
         ELSE StateChange("Changed", dep_group.name, Some(dep_group),
                          Some(map[dep_group.name]), Some(data_hash),
                          Some(output_index))
    ELSE StateChange("NewAdded", dep_group.name, Some(dep_group), None,
                     Some(data_hash), Some(output_index))

\* The loop over the configured dep groups, from the i-th on.
RECURSIVE LoadDepGroupsLoop(_, _, _, _, _, _, _, _)
LoadDepGroupsLoop(acc, lock_script, dep_groups, map, new_map, refs_map, i, io) ==
    IF ~acc.ok \/ i > Len(dep_groups) THEN acc
    ELSE IF \/ \E k \in 1..Len(dep_groups[i].cells) :
                  dep_groups[i].cells[k] \notin DOMAIN new_map \cup DOMAIN refs_map
            \/ (dep_groups[i].name \in DOMAIN map /\ ~io.live)
    THEN [acc EXCEPT !.ok = FALSE]
    ELSE LoadDepGroupsLoop(
             Pushed(acc,
                    DepGroupChangeOf(lock_script, dep_groups[i],
                                     blake2b_256(OutPointsOf(dep_groups[i], new_map,
                                                             refs_map)),
                                     map, acc.output_index),
                    {dep_groups[i].name} \cap DOMAIN map),
             lock_script, dep_groups, map, new_map, refs_map, i + 1, io)

\* load_dep_groups(rpc_client, lock_script, dep_groups, dep_group_recipes_opt,
\* cell_changes, new_cell_recipes): [ok, changes]; recipes_opt is
\* dep_group_recipes_opt.
load_dep_groups(lock_script, dep_groups, recipes_opt, cell_changes, new_cell_recipes, io) ==
    Looped(LoadDepGroupsLoop([ok |-> TRUE, changes |-> <<>>, output_index |-> 0,
                              kept |-> {}],
                             lock_script, dep_groups,
                             IF recipes_opt = None THEN EmptyMap
                             ELSE RecipesMap(recipes_opt[1], Len(recipes_opt[1])),
                             RecipesMap(new_cell_recipes, Len(new_cell_recipes)),
                             RefsMap(cell_changes, Len(cell_changes)), 1, io),
           IF recipes_opt = None THEN EmptyMap
           ELSE RecipesMap(recipes_opt[1], Len(recipes_opt[1])))

\* The dep groups of a deployment, "c" being no cell of it.
DepGroupConfigs ==
    {[name |-> n, cells |-> cs] :
        n \in {"g", "h"}, cs \in {<<"a">>, <<"a", "b">>, <<"c">>}}

\* The recipes of the dep groups of a snapshot, each with the cell the chain
\* holds at its out-point.
DepGroupRecipeShapes ==
    {[name |-> n, type_id |-> FALSE, lock |-> l, data_hash |-> blake2b_256(ops)] :
        n \in {"g", "h"}, l \in LockScripts,
        ops \in {<<<<"cell_tx", "", 0>>>>,
                 <<<<"old", "a", 1>>, <<"ref", "b", 0>>>>}}

\* The lists of up to n entries of a deployment or of a snapshot: no two
\* entries of a list have one name.
Named(S, n) ==
    {xs \in SeqsUpTo(S, n) :
        \A i \in 1..Len(xs), j \in 1..Len(xs) : xs[i].name = xs[j].name => i = j}

\* The snapshots: none, or the recipes of up to n cells.
Snapshots(shapes, n) ==
    {None} \cup {Some(Located(rs)) : rs \in Named(shapes, n)}

\* What gen-txs is run on: any cells next to one dep group at most and no
\* dep group recipes, or two cells next to any dep groups.
GenInputs ==
    {[cells |-> cells, cell_recipes_opt |-> cell_recipes_opt,
      dep_groups |-> dep_groups, dep_group_recipes_opt |-> None] :
        cells \in Named(CellConfigs, MaxDeployCells),
        cell_recipes_opt \in Snapshots(CellRecipeShapes, MaxDeployCells),
        dep_groups \in {<<>>, <<[name |-> "g", cells |-> <<"a">>]>>}}
    \cup
    {[cells |-> <<[name |-> "a", location |-> "file", data |-> "d1",
                   enable_type_id |-> FALSE],
                  [name |-> "b", location |-> "out_point", data |-> "none",
                   enable_type_id |-> FALSE]>>,
      cell_recipes_opt |-> cell_recipes_opt,
      dep_groups |-> dep_groups, dep_group_recipes_opt |-> dep_group_recipes_opt] :
        cell_recipes_opt \in Snapshots({[name |-> "a", type_id |-> FALSE,
                                         lock |-> "lockA",
                                         data_hash |-> blake2b_256("d1")]}, 1),
        dep_groups \in Named(DepGroupConfigs, MaxDepGroups),
        dep_group_recipes_opt \in Snapshots(DepGroupRecipeShapes, MaxDepGroups)}

\* gen-txs is invoked on a deployment config and a migration directory; the
\* lock script of the deployment is "lockA".
GenTxsInit ==
    /\ EngineInit(MainLimits)
    /\ codec = None
    /\ \E input \in GenInputs :
          deploy = [cmd |-> "gen-txs", at |-> "start", input |-> input,
                    lock_script |-> "lockA", cell_changes |-> <<>>,
                    new_cell_recipes |-> <<>>, dep_group_changes |-> <<>>]

\* The needed cells are loaded and the new cell recipes built.
LoadCells ==
    /\ deploy.cmd = "gen-txs" /\ deploy.at = "start"
    /\ \E readable \in BOOLEAN, live \in BOOLEAN :
          LET r == load_cells(deploy.lock_script, deploy.input.cells,
                              deploy.input.cell_recipes_opt,
                              [readable |-> readable, live |-> live])
          IN deploy' = [deploy EXCEPT
                           !.at = IF r.ok THEN "cells" ELSE "failed",
                           !.cell_changes = r.changes,
                           !.new_cell_recipes = build_new_cell_recipes(r.changes)]
    /\ EngineIdle

\* The needed dep groups are loaded.
LoadDepGroups ==
    /\ deploy.cmd = "gen-txs" /\ deploy.at = "cells"
    /\ \E live \in BOOLEAN :
          LET r == load_dep_groups(deploy.lock_script, deploy.input.dep_groups,
                                   deploy.input.dep_group_recipes_opt,
                                   deploy.cell_changes, deploy.new_cell_recipes,
                                   [readable |-> TRUE, live |-> live])
          IN deploy' = [deploy EXCEPT
                           !.at = IF r.ok THEN "dep_groups" ELSE "failed",
                           !.dep_group_changes = r.changes]
    /\ EngineIdle

GenTxsNext == LoadCells \/ LoadDepGroups

GenTxsSpec == GenTxsInit /\ [][GenTxsNext]_vars

\* --------------------------------------------------------- deploy sign-txs

MaxSignRuns == 3

\* The keys sign-txs may be run with, and the keys each lock arg of the
\* inputs of a transaction takes a signature from: a multisig lock of two
\* of them and the sighash lock of one.
SignKeys == {"k1", "k2", "k3"}

LockArgSigners ==
    [lock_arg \in {"multisig", "sighash"} |->
        IF lock_arg = "multisig" THEN {"k1", "k2"} ELSE {"k1"}]

\* The signature of a key over a transaction: the same whenever the key
\* signs the transaction again.
Signature(key, tx) == <<"signature", key, tx>>

\* helper.sign_inputs: the signature of the signer's key for each lock arg
\* the key signs for, by lock arg.
sign_inputs(key, tx) ==
    [lock_arg \in {l \in DOMAIN LockArgSigners : key \in LockArgSigners[l]} |->
        Signature(key, tx)]

\* The elements of a Vec.
Elements(vec) == {vec[i] : i \in 1..Len(vec)}

\* The merge keeping, for a lock arg that was signed for, the new signature
\* alone.
MergeSignaturesReplacing(stored, signatures) ==
    [lock_arg \in DOMAIN stored \cup DOMAIN signatures |->
        IF lock_arg \in DOMAIN signatures THEN {signatures[lock_arg]}
        ELSE Elements(stored[lock_arg])]

\* The stored Vecs turned into HashSets, and each new signature inserted
\* into the set of its lock arg.
MergeSignatures(stored, signatures) ==
    [lock_arg \in DOMAIN stored \cup DOMAIN signatures |->
        (IF lock_arg \in DOMAIN stored THEN Elements(stored[lock_arg]) ELSE {})
        \cup (IF lock_arg \in DOMAIN signatures THEN {signatures[lock_arg]} ELSE {})]

\* sigs.into_iter().collect() for each lock arg: the elements of each set
\* in any order.
Collected(sets) ==
    {vecs \in [DOMAIN sets -> SeqsUpTo(UNION {sets[l] : l \in DOMAIN sets},
                                        Cardinality(SignKeys))] :
        \A l \in DOMAIN sets :
            Len(vecs[l]) = Cardinality(sets[l]) /\ Elements(vecs[l]) = sets[l]}

\* The signatures of one transaction of the info after sign_info has dealt
\* with it.
SignedWith(stored, tx_opt, key, add_signatures) ==
    IF tx_opt = None \/ ~add_signatures THEN {stored}
    ELSE Collected(MergeSignatures(stored, sign_inputs(key, tx_opt[1])))

\* sign_info(info, rpc_client, signer_fn, add_signatures): the outcomes
\* [ok, info]; fail names the transaction whose check or signing fails.
sign_info(info, key, add_signatures, fail) ==
    IF fail = "cell_tx" /\ info.cell_tx # None THEN {[ok |-> FALSE, info |-> info]}
    ELSE {[ok |-> ~(fail = "dep_group_tx" /\ info.dep_group_tx # None),
           info |-> [info EXCEPT
                        !.cell_tx_signatures = c,
                        !.dep_group_tx_signatures =
                            IF fail = "dep_group_tx" THEN @ ELSE d]] :
             c \in SignedWith(info.cell_tx_signatures, info.cell_tx, key,
                              add_signatures),
             d \in SignedWith(info.dep_group_tx_signatures, info.dep_group_tx, key,
                              add_signatures)}

\* modify_info_file: the info file is rewritten only if the function
\* returned Ok.
modify_info_file(info, outcome) == IF outcome.ok THEN outcome.info ELSE info

\* gen-txs has written an info file with one transaction or both and no
\* signature.
SignTxsInit ==
    /\ EngineInit(MainLimits)
    /\ codec = None
    /\ \E c \in {None, Some("cell_tx")}, d \in {None, Some("dep_group_tx")} :
          /\ c # None \/ d # None
          /\ deploy = [cmd |-> "sign-txs", run |-> 0,
                       info |-> [cell_tx |-> c, dep_group_tx |-> d,
                                 cell_tx_signatures |-> EmptyMap,
                                 dep_group_tx_signatures |-> EmptyMap],
                       last |-> None, before |-> None]

\* sign-txs is run with a key, with --add-signatures or without.
SignTxs ==
    /\ deploy.cmd = "sign-txs"
    /\ deploy.run < MaxSignRuns
    /\ \E key \in SignKeys, add_signatures \in BOOLEAN,
          fail \in {"none", "cell_tx", "dep_group_tx"} :
          \E outcome \in sign_info(deploy.info, key, add_signatures, fail) :
              deploy' = [deploy EXCEPT
                            !.run = @ + 1,
                            !.info = modify_info_file(deploy.info, outcome),
                            !.before = deploy.last,
                            !.last = Some([key |-> key,
                                           add_signatures |-> add_signatures,
                                           ok |-> outcome.ok])]
    /\ EngineIdle

SignTxsNext == SignTxs

SignTxsSpec == SignTxsInit /\ [][SignTxsNext]_vars

\* ------------------------------------------------------------------- history

\* The blocks applied so far, the one whose apply has returned included.
AppliedBlocks == IF pc = "applied" THEN Append(chain, block[1]) ELSE chain

\* The store after them: the writer's view once apply has returned.
AppliedStore == IF pc = "applied" THEN store ELSE committed

\* The out-points the outputs of a list of blocks produce.
ProducedBy(blocks) ==
    {<<blocks[n].number, t - 1, j - 1>> :
        <<n, t, j>> \in {x \in (1..Len(blocks)) \X (1..MaxTxs) \X (1..MaxOutputs) :
                            /\ x[2] <= Len(blocks[x[1]].txs)
                            /\ x[3] <= Len(blocks[x[1]].txs[x[2]].outputs)}}

\* The out-points the inputs of a list of blocks reference.
ConsumedBy(blocks) ==
    {blocks[x[1]].txs[x[2]].inputs[x[3]].cell[1] :
        x \in {y \in (1..Len(blocks)) \X (1..MaxTxs) \X (1..MaxInputs) :
                  /\ y[2] <= Len(blocks[y[1]].txs)
                  /\ y[3] <= Len(blocks[y[1]].txs[y[2]].inputs)
                  /\ blocks[y[1]].txs[y[2]].inputs[y[3]].cell # None}}

\* --------------------------------------------------------------------- claims

\* C1: after any sequence of applied blocks, an out-point is in the
\* live-cell-by-origin index exactly when some applied transaction produced
\* it and no applied transaction has consumed it.
C1_LiveCellSetConsistency ==
    DOMAIN AppliedStore.LiveCellMap
        = ProducedBy(AppliedBlocks) \ ConsumedBy(AppliedBlocks)

\* A later block has consumed a cell while another produced cell is live.
C1_Witness ==
    /\ pc = "applied"
    /\ Len(chain) = 2
    /\ ConsumedBy(AppliedBlocks) \cap ProducedBy(chain) # {}
    /\ DOMAIN store.LiveCellMap # {}
    /\ ProducedBy(AppliedBlocks) \ DOMAIN store.LiveCellMap # {}

\* What the claims measure a block against, computed from the block and the
\* store before it.

OldTotal(s, lock_hash) ==
    IF lock_hash \in DOMAIN s.LockTotalCapacity THEN s.LockTotalCapacity[lock_hash]
    ELSE 0

ChainTotal(s) == IF s.TotalCapacity = None THEN 0 ELSE s.TotalCapacity[1]

RECURSIVE AllOutputs(_)
AllOutputs(txs) ==
    IF txs = <<>> THEN <<>> ELSE Head(txs).outputs \o AllOutputs(Tail(txs))

RECURSIVE AllInputCells(_)
AllInputCells(txs) ==
    IF txs = <<>> THEN <<>>
    ELSE SelectSeq([i \in 1..Len(Head(txs).inputs) |-> Head(txs).inputs[i].cell],
                   LAMBDA c : c # None)
         \o AllInputCells(Tail(txs))

RECURSIVE SeqSum(_)
SeqSum(q) == IF q = <<>> THEN 0 ELSE Head(q) + SeqSum(Tail(q))

RECURSIVE SetSum(_, _)
SetSum(S, f) ==
    IF S = {} THEN 0
    ELSE LET x == CHOOSE y \in S : TRUE IN f[x] + SetSum(S \ {x}, f)

\* Every input of the block references a cell live in s, and no two inputs
\* reference the same cell.
DistinctLiveInputs(s, b) ==
    LET cells == AllInputCells(b.txs)
    IN /\ \A i \in 1..Len(cells) : cells[i][1] \in DOMAIN s.LiveCellMap
       /\ \A i, j \in 1..Len(cells) : i # j => cells[i] # cells[j]

TouchedLocks(s, b) ==
    LET cells == AllInputCells(b.txs)
        outs == AllOutputs(b.txs)
    IN {s.LiveCellMap[cells[i][1]].lock_hash : i \in 1..Len(cells)}
       \cup {ScriptHash(outs[j].lock) : j \in 1..Len(outs)}

C4_NoNegativeBalance ==
    /\ (block # None /\ DistinctLiveInputs(committed, block[1]))
          => panic # "add_input_assert"
    /\ \A l \in DOMAIN store.LockTotalCapacity : store.LockTotalCapacity[l] >= 0
    /\ \A l \in DOMAIN committed.LockTotalCapacity : committed.LockTotalCapacity[l] >= 0
    /\ delta # None =>
          \A l \in DOMAIN delta[1].locks : delta[1].locks[l].new_total_capacity >= 0

\* A block spends two live cells of one lock, the larger one last.
C4_Witness ==
    /\ pc = "diffed"
    /\ DistinctLiveInputs(committed, block[1])
    /\ LET cells == AllInputCells(block[1].txs)
       IN /\ Len(cells) = 2
          /\ committed.LiveCellMap[cells[1][1]].lock_hash
                = committed.LiveCellMap[cells[2][1]].lock_hash
          /\ committed.LiveCellMap[cells[1][1]].capacity
                < committed.LiveCellMap[cells[2][1]].capacity

\* The scan of a block as the sequence of its folds: the referenced inputs
\* of a transaction, then its outputs, transaction after transaction.
InEvent(s, c) ==
    IF c \in DOMAIN s.LiveCellMap
    THEN [kind |-> "in", known |-> TRUE, lock |-> s.LiveCellMap[c].lock_hash,
          cap |-> s.LiveCellMap[c].capacity]
    ELSE [kind |-> "in", known |-> FALSE, lock |-> "", cap |-> 0]

OutEvent(o) ==
    [kind |-> "out", known |-> TRUE, lock |-> ScriptHash(o.lock), cap |-> o.capacity]

RECURSIVE Events(_, _)
Events(s, txs) ==
    IF txs = <<>> THEN <<>>
    ELSE LET cells == AllInputCells(<<Head(txs)>>)
         IN [i \in 1..Len(cells) |-> InEvent(s, cells[i][1])]
            \o [j \in 1..Len(Head(txs).outputs) |-> OutEvent(Head(txs).outputs[j])]
            \o Events(s, Tail(txs))

\* What the lock of the k-th fold owns when the fold starts.
Remaining(s, ev, k) ==
    OldTotal(s, ev[k].lock)
    + SeqSum([j \in 1..(k - 1) |->
                 IF ev[j].lock # ev[k].lock THEN 0
                 ELSE IF ev[j].kind = "out" THEN ev[j].cap ELSE 0 - ev[j].cap])

\* Some add_input of the scan is called with more than its lock owns.
Overdrawn(s, b) ==
    LET ev == Events(s, b.txs)
    IN \E k \in 1..Len(ev) :
          /\ ev[k].kind = "in"
          /\ \A j \in 1..k : ev[j].known
          /\ ev[k].cap > Remaining(s, ev, k)

\* C5: a block in which add_input is called with more than the lock's
\* remaining total aborts in from_block on the assertion: no delta is
\* produced, nothing is applied, and no running total is wrapped or clamped.
C5_OverdrawRejected ==
    /\ (block # None /\ Overdrawn(committed, block[1])) =>
          /\ pc = "aborted"
          /\ panic = "add_input_assert"
          /\ call = "from_block"
          /\ delta = None
          /\ store = committed
    /\ delta # None =>
          \A l \in DOMAIN delta[1].locks :
              delta[1].locks[l].new_total_capacity
                  = delta[1].locks[l].old_total_capacity
                    - delta[1].locks[l].inputs_capacity
                    + delta[1].locks[l].outputs_capacity

\* A block spends one live cell twice and its lock owns nothing else.
C5_Witness ==
    /\ pc = "aborted"
    /\ panic = "add_input_assert"
    /\ Overdrawn(committed, block[1])

\* C6: after the blocks 0..N, the retained RecentHeader records are exactly
\* those of the numbers max(0, N - KEEP_RECENT_HEADERS + 1)..N, one record a
\* number, so never more than KEEP_RECENT_HEADERS of them.
C6_RetentionWindow ==
    LET n == Len(AppliedBlocks)
        headers == AppliedStore.RecentHeader
        lo == IF n - KEEP_RECENT_HEADERS > 0 THEN n - KEEP_RECENT_HEADERS ELSE 0
    IN /\ RecentNumbers(headers) = lo..(n - 1)
       /\ Len(headers) = Cardinality(RecentNumbers(headers))
       /\ Len(headers) <= KEEP_RECENT_HEADERS

\* KEEP_RECENT_HEADERS + 1 blocks are applied and the record of block 0 is gone.
C6_Witness ==
    /\ pc = "idle"
    /\ Len(chain) = KEEP_RECENT_HEADERS + 1
    /\ Len(committed.RecentHeader) = KEEP_RECENT_HEADERS
    /\ 0 \notin RecentNumbers(committed.RecentHeader)

\* The two blocks of the scenario.
GenesisBlock == [number |-> 0, timestamp |-> 0, uncles |-> 0, proposals |-> 0,
                 txs |-> <<[inputs |-> <<>>,
                            outputs |-> <<[lock |-> ScriptA, capacity |-> 5000]>>]>>]

SpendingBlock == [number |-> 1, timestamp |-> 1, uncles |-> 0, proposals |-> 0,
                  txs |-> <<[inputs |-> <<[cell |-> Some(<<0, 0, 0>>)]>>,
                             outputs |-> <<[lock |-> ScriptA, capacity |-> 2000],
                                           [lock |-> ScriptB, capacity |-> 2900]>>]>>]

\* C7: the genesis block with one output of 5000 to L1 gives chain capacity
\* 5000, L1 total 5000 and one live cell; the block that spends it into 2000
\* to L1 and 2900 to L2 gives chain capacity 4900, L1 2000, L2 2900, the two
\* new outputs as the live cells, capacity_delta -100, one cell removed and
\* two added.
C7_TwoBlockScenario ==
    /\ (chain = <<>> /\ block = Some(GenesisBlock)) =>
          /\ panic \in {"none", "unimplemented"}
          /\ pc = "applied" =>
                /\ store.TotalCapacity = Some(5000)
                /\ store.LockTotalCapacity = ("L1" :> 5000)
                /\ DOMAIN store.LiveCellMap = {<<0, 0, 0>>}
                /\ result[1].chain_capacity = 5000
    /\ (chain = <<GenesisBlock>> /\ block = Some(SpendingBlock)) =>
          /\ panic \in {"none", "unimplemented"}
          /\ pc = "applied" =>
                /\ store.TotalCapacity = Some(4900)
                /\ store.LockTotalCapacity = ("L1" :> 2000) @@ ("L2" :> 2900)
                /\ DOMAIN store.LiveCellMap = {<<1, 0, 0>>, <<1, 0, 1>>}
                /\ result[1].chain_capacity = 4900
                /\ result[1].capacity_delta = 0 - 100
                /\ result[1].cell_removed = 1
                /\ result[1].cell_added = 2

\* The second block of the scenario has been applied on the first.
C7_Witness ==
    /\ chain = <<GenesisBlock>>
    /\ block = Some(SpendingBlock)
    /\ pc = "applied"

\* The store after the first k blocks of a list, each diffed and applied whole.
RECURSIVE Replay(_, _)
Replay(blocks, k) ==
    IF k = 0 THEN EmptyStore
    ELSE LET s == Replay(blocks, k - 1)
         IN apply(from_block(blocks[k], s).delta[1], s).s

\* C8: the snapshot of a read-only query taken while a block is being
\* applied holds the store as it is after some whole number of blocks, never
\* a store with only some of a block's writes.
C8_NoPartialBlockObservable ==
    snap # None => \E k \in 0..Len(chain) : snap[1] = Replay(chain, k)

\* The query holds its snapshot while the writer has written part of a block.
C8_Witness ==
    /\ pc \in {"txs", "locks"}
    /\ snap = Some(committed)
    /\ store # committed
    /\ Len(chain) >= 1

\* C9: a step of from_block, whether it returns a delta or aborts, leaves
\* the writer's view and the committed store as they were.
C9_FromBlockReadOnly ==
    [][(pc = "idle" /\ pc' # "idle") => (store' = store /\ committed' = committed)]_vars

\* from_block has returned a delta that changes the chain total, and the
\* store still holds the old one.
C9_Witness ==
    /\ pc = "diffed"
    /\ call = "from_block"
    /\ delta[1].new_chain_capacity # delta[1].old_chain_capacity
    /\ store = committed
    /\ ChainTotal(store) = delta[1].old_chain_capacity

\* C10: every invocation of _rollback ends in the unimplemented panic and
\* leaves the writer's view and the committed store as they were.
C10_RollbackFailsLoudly ==
    [][call' = "_rollback" =>
          /\ pc' = "aborted"
          /\ panic' = "unimplemented"
          /\ store' = store
          /\ committed' = committed]_vars

\* _rollback was invoked on an applied delta whose writes are not committed.
C10_Witness ==
    /\ call = "_rollback"
    /\ pc = "aborted"
    /\ panic = "unimplemented"
    /\ store # committed

\* C11: for every CellIndex whose two fields are 32-bit unsigned numbers,
\* to_bytes yields exactly 8 bytes, each within 0..255, and from_bytes of
\* them is the CellIndex itself.
C11_CellIndexRoundTrip ==
    /\ codec.at \in {"bytes", "back"} =>
          /\ Len(codec.bytes) = 8
          /\ \A i \in 1..8 : codec.bytes[i] \in 0..255
    /\ codec.at = "back" => codec.back = Some(codec.key)

\* A key whose two fields differ and have a byte of every kind has gone
\* through both conversions.
C11_Witness ==
    /\ codec.at = "back"
    /\ codec.key.tx_index = U32(65535, 256)
    /\ codec.key.output_index = U32(1, 255)
    /\ codec.bytes = <<255, 255, 1, 0, 0, 1, 0, 255>>

\* C12: whenever apply returns, the capacity_delta of its ApplyResult, and
\* the one persisted in the RecentHeader record of the block, is the exact
\* difference new_chain_capacity - old_chain_capacity; a difference that
\* does not fit in i64 makes apply fail.
C12_CapacityDeltaExact ==
    pc = "applied" =>
        LET exact == delta[1].new_chain_capacity - delta[1].old_chain_capacity
            headers == store.RecentHeader
        IN /\ result[1].capacity_delta = exact
           /\ headers[Len(headers)].capacity_delta = exact

\* The sum of the capacities of the outputs of a block that go to a lock.
OutputsTo(b, lock_hash) ==
    LET outs == AllOutputs(b.txs)
    IN SeqSum([j \in 1..Len(outs) |->
                  IF ScriptHash(outs[j].lock) = lock_hash THEN outs[j].capacity ELSE 0])

\* No running total of a lock touched by the block can pass u64::MAX.
LockTotalsFit(s, b) ==
    \A l \in {ScriptHash(script) : script \in Scripts} :
        OldTotal(s, l) + OutputsTo(b, l) <= U64Max

\* The chain total after a block, in unbounded integers.
ExactNewChainCapacity(s, b) ==
    LET outs == AllOutputs(b.txs)
        cells == AllInputCells(b.txs)
    IN ChainTotal(s)
       + SeqSum([j \in 1..Len(outs) |-> outs[j].capacity])
       - SeqSum([i \in 1..Len(cells) |-> s.LiveCellMap[cells[i][1]].capacity])

\* C16: for a block whose inputs are distinct live cells and whose locks'
\* totals each fit in u64, from_block returns a delta, and its
\* new_chain_capacity is the exact total, also when the sum of the touched
\* locks' totals passes u64::MAX.
C16_ChainTotalExact ==
    (/\ block # None
     /\ call = "from_block"
     /\ DistinctLiveInputs(committed, block[1])
     /\ LockTotalsFit(committed, block[1])) =>
        /\ pc = "diffed"
        /\ delta # None
        /\ delta[1].new_chain_capacity = ExactNewChainCapacity(committed, block[1])

\* Some input of the block references an out-point that is not in the
\* live-cell-by-origin index of the store.
UnknownInput(s, b) ==
    LET cells == AllInputCells(b.txs)
    IN \E i \in 1..Len(cells) : cells[i][1] \notin DOMAIN s.LiveCellMap

\* C13: a block with an input whose out-point is not in LiveCellMap (never
\* created, or spent by an earlier block) makes from_block abort: no delta
\* is produced and the store is as it was.
C13_UnknownInputFatal ==
    (block # None /\ UnknownInput(committed, block[1])) =>
        /\ pc = "aborted"
        /\ call = "from_block"
        /\ panic \in {"unknown_input", "add_input_assert"}
        /\ delta = None
        /\ store = committed

\* from_block has aborted on an input that references a cell an earlier
\* block created and a later one spent.
C13_Witness ==
    /\ pc = "aborted"
    /\ panic = "unknown_input"
    /\ LET cells == AllInputCells(block[1].txs)
       IN \E i \in 1..Len(cells) :
             /\ cells[i][1] \in ProducedIn(committed)
             /\ cells[i][1] \notin DOMAIN committed.LiveCellMap

\* The inputs of a list of transactions, with or without a cell reference.
RECURSIVE AllInputs(_)
AllInputs(txs) ==
    IF txs = <<>> THEN <<>> ELSE Head(txs).inputs \o AllInputs(Tail(txs))

\* C14: the ApplyResult of an applied delta has chain_capacity equal to the
\* delta's new_chain_capacity, txs equal to the number of transactions of the
\* block, cell_added equal to the number of outputs of all its transactions
\* and cell_removed equal to the number of their inputs that reference a
\* cell.
C14_ApplyResultContents ==
    pc = "applied" =>
        /\ result # None
        /\ result[1].chain_capacity = delta[1].new_chain_capacity
        /\ result[1].txs = Len(block[1].txs)
        /\ result[1].cell_added = Len(AllOutputs(block[1].txs))
        /\ result[1].cell_removed = Len(AllInputCells(block[1].txs))

\* A block of two transactions has been applied, one of whose inputs
\* references no cell, so that fewer cells are removed than inputs scanned.
C14_Witness ==
    /\ pc = "applied"
    /\ Len(block[1].txs) = 2
    /\ result[1].txs = 2
    /\ result[1].cell_removed = 1
    /\ Len(AllInputs(block[1].txs)) = 2
    /\ result[1].cell_added = 1
    /\ block[1].txs[1].outputs = <<>>

C17_ZeroBalanceNotRetained ==
    /\ \A l \in DOMAIN AppliedStore.LockTotalCapacity :
          AppliedStore.LockTotalCapacity[l] # 0
    /\ pc = "applied" =>
          \A l \in DOMAIN delta[1].locks :
              IF delta[1].locks[l].new_total_capacity = 0
              THEN l \notin DOMAIN store.LockTotalCapacity
              ELSE /\ l \in DOMAIN store.LockTotalCapacity
                   /\ store.LockTotalCapacity[l] = delta[1].locks[l].new_total_capacity

\* A block has spent all that a lock owned, and another lock it touches
\* keeps a total.
C17_Witness ==
    /\ pc = "applied"
    /\ \E l \in DOMAIN delta[1].locks :
          /\ delta[1].locks[l].new_total_capacity = 0
          /\ l \in DOMAIN committed.LockTotalCapacity
          /\ l \notin DOMAIN store.LockTotalCapacity
    /\ \E l \in DOMAIN delta[1].locks : delta[1].locks[l].new_total_capacity > 0

\* The ranking entries the persisted totals call for.
RankingOf(s) == {<<s.LockTotalCapacity[l], l>> : l \in DOMAIN s.LockTotalCapacity}

\* C18: after every apply the by-amount ranking index holds the entry
\* (t, L) exactly when lock L has the persisted total t, and t > 0: one
\* entry for a lock with a total, none for an earlier total, also for a lock
\* touched for the first time.
C18_RankingMirrorsTotals ==
    /\ AppliedStore.LockTotalCapacityIndex = RankingOf(AppliedStore)
    /\ \A e \in AppliedStore.LockTotalCapacityIndex : e[1] > 0

\* A block has changed the total of a lock that had one, and has given a
\* total to a lock touched for the first time.
C18_Witness ==
    /\ pc = "applied"
    /\ \E l \in DOMAIN delta[1].locks :
          /\ delta[1].locks[l].old_total_capacity > 0
          /\ delta[1].locks[l].new_total_capacity > 0
          /\ delta[1].locks[l].new_total_capacity # delta[1].locks[l].old_total_capacity
          /\ <<delta[1].locks[l].old_total_capacity, l>> \in committed.LockTotalCapacityIndex
    /\ \E l \in DOMAIN delta[1].locks :
          /\ delta[1].locks[l].old_total_capacity = 0
          /\ delta[1].locks[l].new_total_capacity > 0

\* The cells of the by-origin index.
LiveCells(s) == {s.LiveCellMap[p] : p \in DOMAIN s.LiveCellMap}

\* C19: after every apply the by-origin, the by-block-position and the
\* by-lock-and-position indexes describe the same set of cells: each cell of
\* one is in the other two, under the keys its fields give, and none of the
\* three holds anything else.
C19_ProjectionsInStep ==
    LET s == AppliedStore
    IN /\ DOMAIN s.LiveCellIndex = {<<c.number, c.index>> : c \in LiveCells(s)}
       /\ DOMAIN s.LockLiveCellIndex
             = {<<c.lock_hash, c.number, c.index>> : c \in LiveCells(s)}
       /\ \A p \in DOMAIN s.LiveCellMap :
             LET c == s.LiveCellMap[p]
             IN /\ c.out_point = p
                /\ s.LiveCellIndex[<<c.number, c.index>>] = p
                /\ s.LockLiveCellIndex[<<c.lock_hash, c.number, c.index>>] = p
       /\ Cardinality(DOMAIN s.LiveCellIndex) = Cardinality(DOMAIN s.LiveCellMap)
       /\ Cardinality(DOMAIN s.LockLiveCellIndex) = Cardinality(DOMAIN s.LiveCellMap)

\* A block has consumed a cell, produced one and left one live.
C19_Witness ==
    /\ pc = "applied"
    /\ DOMAIN committed.LiveCellMap \ DOMAIN store.LiveCellMap # {}
    /\ DOMAIN store.LiveCellMap \ DOMAIN committed.LiveCellMap # {}
    /\ DOMAIN store.LiveCellMap \cap DOMAIN committed.LiveCellMap # {}
    /\ DOMAIN store.LockLiveCellIndex # DOMAIN committed.LockLiveCellIndex

\* The out-points of the live cells of a lock.
LiveCellsOf(s, lock_hash) ==
    {p \in DOMAIN s.LiveCellMap : s.LiveCellMap[p].lock_hash = lock_hash}

\* C20: after every apply in a sequence of blocks from the empty store, the
\* persisted total of every lock (0 if it has none) is the sum of the
\* capacities of the live cells whose lock_hash it is.
C20_LockTotalIsSumOfLiveCells ==
    LET s == AppliedStore
    IN \A l \in {ScriptHash(script) : script \in Scripts} \cup DOMAIN s.LockTotalCapacity :
          OldTotal(s, l)
              = SetSum(LiveCellsOf(s, l),
                       [p \in DOMAIN s.LiveCellMap |-> s.LiveCellMap[p].capacity])

\* A block has spent one cell of a lock and paid to it, and the lock has two
\* live cells.
C20_Witness ==
    /\ pc = "applied"
    /\ DistinctLiveInputs(committed, block[1])
    /\ \E l \in DOMAIN delta[1].locks :
          /\ delta[1].locks[l].inputs_capacity > 0
          /\ delta[1].locks[l].outputs_capacity > 0
          /\ delta[1].locks[l].new_total_capacity # delta[1].locks[l].old_total_capacity
          /\ Cardinality(LiveCellsOf(store, l)) = 2

\* The sum of the persisted lock totals of a store.
LockTotalsSum(s) == SetSum(DOMAIN s.LockTotalCapacity, s.LockTotalCapacity)

LockHashes == {ScriptHash(script) : script \in Scripts}

\* What a store holds for one lock: its total record, its ranking entries,
\* its lock-script record and its live cells in the two indexes that carry
\* the lock.
LockView(s, l) == [
    total |-> IF l \in DOMAIN s.LockTotalCapacity
              THEN Some(s.LockTotalCapacity[l]) ELSE None,
    ranking |-> {e \in s.LockTotalCapacityIndex : e[2] = l},
    script |-> IF l \in DOMAIN s.LockScript THEN Some(s.LockScript[l]) ELSE None,
    cells |-> {s.LiveCellMap[p] : p \in LiveCellsOf(s, l)},
    by_lock |-> {<<k, s.LockLiveCellIndex[k]>> :
                    k \in {x \in DOMAIN s.LockLiveCellIndex : x[1] = l}}]

\* C22: a lock of which the block consumes no cell and to which it pays no
\* output has, after apply, the total record, the ranking entry, the
\* lock-script record and the live cells it had before.
C22_UntouchedLocksUnchanged ==
    pc = "applied" =>
        \A l \in (LockHashes \cup DOMAIN committed.LockTotalCapacity)
                    \ TouchedLocks(committed, block[1]) :
            LockView(store, l) = LockView(committed, l)

\* A block that touches one lock has been applied while the other lock has
\* a total, a ranking entry, a script record and a live cell.
C22_Witness ==
    /\ pc = "applied"
    /\ TouchedLocks(committed, block[1]) # {}
    /\ store.LockTotalCapacity # committed.LockTotalCapacity
    /\ \E l \in LockHashes \ TouchedLocks(committed, block[1]) :
          /\ LockView(committed, l).total # None
          /\ LockView(committed, l).ranking # {}
          /\ LockView(committed, l).script # None
          /\ LockView(committed, l).cells # {}

\* C23: after every apply the last-header pointer holds the header of the
\* block applied last, and the RecentHeader index has a record for that
\* number with the same header; before the first block there is no pointer.
C23_LastHeaderTracksLatest ==
    LET blocks == AppliedBlocks
        s == AppliedStore
    IN IF blocks = <<>> THEN s.LastHeader = None
       ELSE LET last == blocks[Len(blocks)]
            IN /\ s.LastHeader # None
               /\ s.LastHeader[1].number = last.number
               /\ s.LastHeader[1].timestamp = last.timestamp
               /\ last.number \in RecentNumbers(s.RecentHeader)
               /\ \E i \in 1..Len(s.RecentHeader) :
                     s.RecentHeader[i].header = s.LastHeader[1]

\* The block applied last has moved the pointer on from the block before it
\* and has evicted the oldest record.
C23_Witness ==
    /\ pc = "applied"
    /\ committed.LastHeader # None
    /\ store.LastHeader # committed.LastHeader
    /\ store.LastHeader[1].number = block[1].number
    /\ delta[1].old_headers # <<>>

\* C24: the old_headers of a delta for block N are exactly the retained
\* header numbers n with n + KEEP_RECENT_HEADERS <= N, each once and in
\* ascending order: the scan from the start of the RecentHeader keys that
\* stops at the first younger record misses none.
C24_EvictionListExact ==
    delta # None =>
        LET old == delta[1].old_headers
            retained == RecentNumbers(committed.RecentHeader)
        IN /\ {old[i] : i \in 1..Len(old)}
                 = {n \in retained : n + KEEP_RECENT_HEADERS <= block[1].number}
           /\ \A i \in 1..(Len(old) - 1) : old[i] < old[i + 1]

\* A block whose number skips ahead evicts two records at once.
C24_Witness ==
    /\ pc = "diffed"
    /\ Len(delta[1].old_headers) = 2
    /\ delta[1].old_headers[1] < delta[1].old_headers[2]
    /\ block[1].number > chain[Len(chain)].number + 1

\* The transaction hashes the lock history of a store holds for a lock.
HistoryOf(s, lock_hash) ==
    {s.LockTx[k] : k \in {x \in DOMAIN s.LockTx : x[1] = lock_hash}}

\* C26: after apply, for every cell consumed by a transaction X of the block
\* the history of the cell's lock has an entry whose value is X's hash, and
\* for every cell produced by a transaction Y the history of its lock has an
\* entry whose value is Y's hash, also when several transactions of the
\* block touch cells of one lock.
C26_LockHistoryRecordsTxs ==
    pc = "applied" =>
        \A t \in 1..Len(delta[1].txs) :
            LET tx == delta[1].txs[t]
            IN /\ \A i \in 1..Len(tx.inputs) :
                     tx.tx_hash \in HistoryOf(store, tx.inputs[i].lock_hash)
               /\ \A j \in 1..Len(tx.outputs) :
                     tx.tx_hash \in HistoryOf(store, tx.outputs[j].lock_hash)

\* C27: a lock history entry (lock hash, block number, transaction index) ->
\* transaction hash, once written, is never deleted and never overwritten
\* with another hash by a later step or block; the entry of the transaction
\* that created a cell still holds that hash after the cell is consumed.
C27_LockHistoryAppendOnly ==
    [][\A k \in DOMAIN store.LockTx :
          /\ k \in DOMAIN store'.LockTx
          /\ store'.LockTx[k] = store.LockTx[k]]_vars

\* Some input of the block references an output of the block itself.
SameBlockSpend(b) ==
    LET cells == AllInputCells(b.txs)
    IN \E i \in 1..Len(cells) :
          cells[i][1] \in ProducedBy(<<b>>)
          \/ cells[i][1] = CellOutPoint(TxHash(b.number, 0), 0)

\* C28: from_block resolves every input against the store as it was before
\* the block. A block in which a transaction spends an output of the same
\* block makes from_block abort with nothing written, and every cell a
\* delta consumes was live before the block and is recorded as the store
\* held it.
C28_InputsFromPreBlockStore ==
    /\ (block # None /\ SameBlockSpend(block[1])) =>
          /\ pc = "aborted"
          /\ call = "from_block"
          /\ panic \in {"unknown_input", "add_input_assert"}
          /\ delta = None
          /\ store = committed
    /\ delta # None =>
          \A t \in 1..Len(delta[1].txs) :
              /\ Len(delta[1].txs[t].inputs) = Len(InputCells(block[1].txs[t].inputs))
              /\ \A i \in 1..Len(delta[1].txs[t].inputs) :
                    LET p == InputCells(block[1].txs[t].inputs)[i]
                    IN /\ p \in DOMAIN committed.LiveCellMap
                       /\ p \notin ProducedBy(<<block[1]>>)
                       /\ delta[1].txs[t].inputs[i] = committed.LiveCellMap[p]

\* The second transaction of a block spends the output the first one has
\* just produced.
C28_Witness ==
    /\ pc = "aborted"
    /\ panic = "unknown_input"
    /\ Len(block[1].txs) = 2
    /\ block[1].txs[1].inputs = <<>>
    /\ block[1].txs[1].outputs # <<>>
    /\ block[1].txs[2].inputs
          = <<[cell |-> Some(CellOutPoint(TxHash(block[1].number, 0), 0))]>>

OtherChains(blocks) ==
    {[i \in 1..Len(blocks) |-> [blocks[i] EXCEPT !.uncles = u[i]]] :
        u \in [1..Len(blocks) -> lim.uncles]}

\* C30: the store before a block is determined by the store after its apply
\* and its BlockDeltaInfo: two pre-block stores that give the same delta
\* for the block and the same store after apply are equal, evicted header
\* records included.
C30_DeltaSufficesToUndo ==
    pc = "applied" =>
        \A other \in OtherChains(chain) :
            LET pre == Replay(other, Len(other))
            IN (/\ from_block(block[1], pre).delta = delta
                /\ apply(delta[1], pre).s = store)
                  => pre = committed

\* A list of calls with the i-th and the j-th exchanged.
Exchanged(ops, i, j) ==
    [k \in 1..Len(ops) |-> IF k = i THEN ops[j] ELSE IF k = j THEN ops[i] ELSE ops[k]]

\* The exchange of two calls leaves the outcome of the list what it was:
\* after is the writer after the calls in their order.
ExchangeKeeps(s, ops, after, i, j) ==
    Run(Writing(s), Exchanged(ops, i, j), 1) = after

\* Two calls whose order shows in the store: two history writes of different
\* hashes under one key, or the delete and the write of one ranking entry.
OrderShows(a, b) ==
    /\ a.table = b.table
    /\ a.key = b.key
    /\ \/ a.table = "LockTx" /\ a.value # b.value
       \/ a.table = "LockTotalCapacityIndex" /\ a.kind # b.kind

\* The exchange of the i-th and the j-th call changes the order of two
\* calls whose order shows: of one of the two and a call between them, or of
\* the two themselves.
Reorders(ops, i, j) ==
    \E k \in i..j : \/ k # i /\ OrderShows(ops[i], ops[k])
                    \/ k # j /\ OrderShows(ops[k], ops[j])

AnyExchangeKeeps(s, ops, after) ==
    \A i, j \in 1..Len(ops) : i < j => ExchangeKeeps(s, ops, after, i, j)

OrderKeepingExchangeKeeps(s, ops, after) ==
    \A i, j \in 1..Len(ops) :
        (i < j /\ ~Reorders(ops, i, j)) => ExchangeKeeps(s, ops, after, i, j)

\* C25 as stated: for every delta the store after apply does not depend on
\* the order of its puts and deletes; here, on the order of any two of them.
C25_ApplyOrderIndependent ==
    pc = "applied" =>
        AnyExchangeKeeps(committed, ApplyOps(delta[1]),
                         Run(Writing(committed), ApplyOps(delta[1]), 1))

\* C25, amended: the calls of apply up to the end of the loop over the locks
\* are those of ApplyOps, and exchanging any two of them leaves the store
\* after them the same provided the exchange keeps the order of every two
\* history writes of different transaction hashes under one key and of the
\* delete and the write of one ranking entry (a touched lock whose total is
\* unchanged).
C25_OrderShowsOnlyOnSameKey ==
    pc = "applied" =>
        /\ Run(Writing(committed), ApplyOps(delta[1]), 1)
              = ApplyLocks(ApplyTxs(Writing(committed), delta[1].txs, 1),
                           delta[1].locks, DOMAIN delta[1].locks)
        /\ OrderKeepingExchangeKeeps(committed, ApplyOps(delta[1]),
                                     Run(Writing(committed), ApplyOps(delta[1]), 1))

\* An applied block of two transactions touches two locks, and two of its
\* calls write the same value under one key.
C25_Witness ==
    /\ pc = "applied"
    /\ Len(delta[1].txs) = 2
    /\ Cardinality(DOMAIN delta[1].locks) = 2
    /\ \E i, j \in 1..Len(ApplyOps(delta[1])) :
          /\ i < j
          /\ ApplyOps(delta[1])[i].table = "LockTx"
          /\ ApplyOps(delta[1])[i] = ApplyOps(delta[1])[j]

\* The live-cell, lock and history content of a store.
CellAndLockContent(s) ==
    [x \in {"LiveCellMap", "LiveCellIndex", "LockLiveCellIndex", "LockTotalCapacity",
            "LockTotalCapacityIndex", "LockScript", "SecpAddrLock", "GlobalHash",
            "TxMap", "LockTx"} |-> s[x]]

\* C31: for a block with no transactions from_block yields no transactions
\* and no locks and a new chain total equal to the old one; apply returns
\* capacity_delta 0, cell_added 0 and cell_removed 0 and changes no
\* live-cell, lock-total or chain-total content, and still writes the
\* block's HeaderInfo, evicts the old headers and moves the last-header
\* pointer.
C31_EmptyBlock ==
    (block # None /\ block[1].txs = <<>>) =>
        /\ panic \in {"none", "unimplemented"}
        /\ delta # None =>
              /\ delta[1].txs = <<>>
              /\ DOMAIN delta[1].locks = {}
              /\ delta[1].new_chain_capacity = delta[1].old_chain_capacity
              /\ delta[1].old_chain_capacity = ChainTotal(committed)
        /\ pc = "applied" =>
              /\ result[1].capacity_delta = 0
              /\ result[1].cell_added = 0
              /\ result[1].cell_removed = 0
              /\ result[1].txs = 0
              /\ result[1].chain_capacity = ChainTotal(committed)
              /\ CellAndLockContent(store) = CellAndLockContent(committed)
              /\ ChainTotal(store) = ChainTotal(committed)
              /\ store.LastHeader = Some(delta[1].header)
              /\ \E i \in 1..Len(store.RecentHeader) :
                    /\ store.RecentHeader[i].header.number = block[1].number
                    /\ store.RecentHeader[i].txs_size = 0
                    /\ store.RecentHeader[i].capacity_delta = 0
              /\ RecentNumbers(store.RecentHeader)
                    = (RecentNumbers(committed.RecentHeader) \cup {block[1].number})
                      \ {n \in RecentNumbers(committed.RecentHeader) :
                            n + KEEP_RECENT_HEADERS <= block[1].number}

\* An empty block has been applied to a store with live cells and has
\* evicted a header record.
C31_Witness ==
    /\ pc = "applied"
    /\ block[1].txs = <<>>
    /\ DOMAIN committed.LiveCellMap # {}
    /\ delta[1].old_headers # <<>>
    /\ Len(store.RecentHeader) = KEEP_RECENT_HEADERS

\* The address a script resolves to: only SECP_CODE_HASH with exactly one
\* argument that decodes.
Resolves(script) ==
    /\ script.code_hash = "SECP"
    /\ Len(script.args) = 1
    /\ AddressFromLockArg(script.args[1]) # None

\* C32: set_script gives a lock an address only when the script has the
\* standard code hash and exactly one argument and that argument decodes;
\* in every other case the address is left unresolved, the script is
\* recorded all the same, nothing fails, and the block is processed and
\* applied as any other.
C32_AddressResolutionAdvisory ==
    /\ (block # None /\ DistinctLiveInputs(committed, block[1])) => panic = "none"
    /\ delta # None =>
          \A j \in 1..Len(AllOutputs(block[1].txs)) :
              LET script == AllOutputs(block[1].txs)[j].lock
                  info == delta[1].locks[ScriptHash(script)]
              IN /\ info.script_opt = Some(script)
                 /\ IF Resolves(script)
                    THEN info.address_opt = AddressFromLockArg(script.args[1])
                    ELSE info.address_opt = None
    /\ pc = "applied" =>
          \A j \in 1..Len(AllOutputs(block[1].txs)) :
              LET script == AllOutputs(block[1].txs)[j].lock
              IN /\ store.LockScript[ScriptHash(script)] = script
                 /\ OldTotal(store, ScriptHash(script))
                       >= AllOutputs(block[1].txs)[j].capacity
                 /\ Resolves(script) =>
                       store.SecpAddrLock[AddressFromLockArg(script.args[1])[1]]
                           = ScriptHash(script)
                 /\ ~Resolves(script) =>
                       \A a \in DOMAIN store.SecpAddrLock :
                           store.SecpAddrLock[a] # ScriptHash(script)

\* A block that pays to a lock with two arguments and to one whose argument
\* does not decode has been applied.
C32_Witness ==
    /\ pc = "applied"
    /\ Len(AllOutputs(block[1].txs)) = 2
    /\ AllOutputs(block[1].txs)[1].lock = ScriptTwoArgs
    /\ AllOutputs(block[1].txs)[2].lock = ScriptBadArg
    /\ delta[1].locks["L4"].address_opt = None
    /\ delta[1].locks["L5"].address_opt = None
    /\ "L4" \in DOMAIN store.LockScript
    /\ DOMAIN store.SecpAddrLock = {}

\* The locks the outputs of a block pay to.
OutputLocks(b) ==
    {ScriptHash(AllOutputs(b.txs)[j].lock) : j \in 1..Len(AllOutputs(b.txs))}

\* What a store holds under the address-to-lock-hash keys for a lock.
AddressesOf(s, l) == {a \in DOMAIN s.SecpAddrLock : s.SecpAddrLock[a] = l}

\* C33: after from_block a touched lock has a script exactly when an output
\* of the block uses the lock, and a lock touched through inputs alone has
\* neither script nor address. apply writes the lock-script record and the
\* address record only for a lock whose script and address are resolved,
\* and registers every touched lock in the global hash registry as a lock.
C33_ScriptFromOutputsOnly ==
    /\ delta # None =>
          \A l \in DOMAIN delta[1].locks :
              /\ delta[1].locks[l].script_opt # None <=> l \in OutputLocks(block[1])
              /\ l \notin OutputLocks(block[1]) => delta[1].locks[l].address_opt = None
              /\ delta[1].locks[l].script_opt # None =>
                    ScriptHash(delta[1].locks[l].script_opt[1]) = l
    /\ pc = "applied" =>
          /\ \A l \in DOMAIN delta[1].locks :
                /\ l \in DOMAIN store.GlobalHash
                /\ store.GlobalHash[l] = "Lock"
                /\ IF delta[1].locks[l].script_opt # None
                   THEN store.LockScript[l] = delta[1].locks[l].script_opt[1]
                   ELSE LockView(store, l).script = LockView(committed, l).script
                /\ IF delta[1].locks[l].address_opt # None
                   THEN store.SecpAddrLock[delta[1].locks[l].address_opt[1]] = l
                   ELSE AddressesOf(store, l) = AddressesOf(committed, l)
          /\ DOMAIN store.LockScript
                = DOMAIN committed.LockScript \cup OutputLocks(block[1])

\* A block has spent a cell of one lock without paying to it and has paid
\* to another lock for the first time.
C33_Witness ==
    /\ pc = "applied"
    /\ \E l \in DOMAIN delta[1].locks :
          /\ l \notin OutputLocks(block[1])
          /\ delta[1].locks[l].inputs_capacity > 0
          /\ delta[1].locks[l].script_opt = None
          /\ l \in DOMAIN store.LockScript
    /\ \E l \in OutputLocks(block[1]) :
          /\ l \notin DOMAIN committed.LockScript
          /\ l \in DOMAIN store.LockScript

\* Every input of the block references no cell.
OnlyNullInputs(b) ==
    /\ AllInputs(b.txs) # <<>>
    /\ \A i \in 1..Len(AllInputs(b.txs)) : AllInputs(b.txs)[i].cell = None

\* C34: an input whose previous output carries no cell reference causes no
\* lookup and no failure, touches no lock, is not counted in cell_removed
\* and is not among the inputs of the persisted TxInfo of its transaction.
C34_NullInputsSkipped ==
    /\ (block # None /\ OnlyNullInputs(block[1])) =>
          /\ panic \in {"none", "unimplemented"}
          /\ delta # None => DOMAIN delta[1].locks = OutputLocks(block[1])
          /\ pc = "applied" => result[1].cell_removed = 0
    /\ delta # None =>
          /\ DOMAIN delta[1].locks = TouchedLocks(committed, block[1])
          /\ \A t \in 1..Len(delta[1].txs) :
                [i \in 1..Len(delta[1].txs[t].inputs) |->
                    delta[1].txs[t].inputs[i].out_point]
                    = InputCells(block[1].txs[t].inputs)
    /\ pc = "applied" =>
          /\ result[1].cell_removed = Len(AllInputCells(block[1].txs))
          /\ \A t \in 1..Len(block[1].txs) :
                store.TxMap[TxHash(block[1].number, t - 1)].inputs
                    = InputCells(block[1].txs[t].inputs)

\* An applied transaction has an input without a cell reference before one
\* that spends a live cell.
C34_Witness ==
    /\ pc = "applied"
    /\ Len(block[1].txs) >= 1
    /\ Len(block[1].txs[1].inputs) = 2
    /\ block[1].txs[1].inputs[1].cell = None
    /\ block[1].txs[1].inputs[2].cell # None
    /\ result[1].cell_removed = 1
    /\ Len(store.TxMap[TxHash(block[1].number, 0)].inputs) = 1

\* The block as far as the scan has come: the transactions before the t-th
\* and, of the t-th, its first ki inputs and its first ko outputs.
ScannedSoFar(b, t, ki, ko) ==
    [b EXCEPT !.txs = SubSeq(b.txs, 1, t - 1)
                      \o <<[inputs |-> SubSeq(b.txs[t].inputs, 1, ki),
                            outputs |-> SubSeq(b.txs[t].outputs, 1, ko)]>>]

\* The points of the scan of a block: its start, and the point after each
\* input and each output.
ScanPoints(b) ==
    {[b EXCEPT !.txs = <<>>]}
    \cup UNION {{ScannedSoFar(b, t, ki, 0) : ki \in 0..Len(b.txs[t].inputs)}
                \cup {ScannedSoFar(b, t, Len(b.txs[t].inputs), ko) :
                         ko \in 1..Len(b.txs[t].outputs)} : t \in 1..Len(b.txs)}

\* The locks map of the scan at a point: [ok, panic, locks, txs].
ScanAt(s, point) ==
    ScanTxs([ok |-> TRUE, panic |-> "none", locks |-> EmptyMap, txs |-> <<>>],
            s, point, 1)

\* The capacities of a lock folded in up to a point of the scan.
InputsFolded(s, point, l) ==
    SeqSum([i \in 1..Len(AllInputCells(point.txs)) |->
               IF s.LiveCellMap[AllInputCells(point.txs)[i][1]].lock_hash = l
               THEN s.LiveCellMap[AllInputCells(point.txs)[i][1]].capacity ELSE 0])

OutputsFolded(point, l) ==
    SeqSum([j \in 1..Len(AllOutputs(point.txs)) |->
               IF ScriptHash(AllOutputs(point.txs)[j].lock) = l
               THEN AllOutputs(point.txs)[j].capacity ELSE 0])

AccumulatorHolds(s, point, locks) ==
    /\ DOMAIN locks = TouchedLocks(s, point)
    /\ \A l \in DOMAIN locks :
          /\ locks[l].old_total_capacity = OldTotal(s, l)
          /\ locks[l].inputs_capacity = InputsFolded(s, point, l)
          /\ locks[l].outputs_capacity = OutputsFolded(point, l)
          /\ locks[l].new_total_capacity
                = locks[l].old_total_capacity - locks[l].inputs_capacity
                  + locks[l].outputs_capacity

\* C35: at every point of the scan of a block, every lock touched so far
\* has a LockInfo whose old_total_capacity is the lock's persisted total
\* before the block (0 if absent), whose inputs_capacity and
\* outputs_capacity are the sums of the capacities folded in so far for the
\* lock, and whose new_total_capacity is old_total_capacity -
\* inputs_capacity + outputs_capacity.
C35_AccumulatorArithmetic ==
    block # None =>
        /\ \A point \in ScanPoints(block[1]) :
              ScanAt(committed, point).ok
                  => AccumulatorHolds(committed, point, ScanAt(committed, point).locks)
        /\ delta # None => delta[1].locks = ScanAt(committed, block[1]).locks

\* The scan of a block has folded an input and two outputs into one lock
\* that had a total before the block.
C35_Witness ==
    /\ pc = "diffed"
    /\ \E l \in DOMAIN delta[1].locks :
          /\ delta[1].locks[l].old_total_capacity > 0
          /\ delta[1].locks[l].inputs_capacity > 0
          /\ delta[1].locks[l].outputs_capacity > delta[1].locks[l].inputs_capacity
          /\ Cardinality(ScanPoints(block[1])) >= 4

\* The order of two u32 values given as halves.
U32Less(x, y) == x.hi < y.hi \/ (x.hi = y.hi /\ x.lo < y.lo)

\* The order of two CellIndex values: by tx_index, then by output_index.
CellIndexLess(a, b) ==
    \/ U32Less(a.tx_index, b.tx_index)
    \/ a.tx_index = b.tx_index /\ U32Less(a.output_index, b.output_index)

\* The byte-wise lexicographic order of two byte strings.
RECURSIVE BytesLess(_, _)
BytesLess(x, y) ==
    IF y = <<>> THEN FALSE
    ELSE IF x = <<>> THEN TRUE
    ELSE IF Head(x) # Head(y) THEN Head(x) < Head(y)
    ELSE BytesLess(Tail(x), Tail(y))

\* A position in a block as the u32 fields of a CellIndex.
AsU32(n) == U32(n \div 65536, n % 65536)

KeyBytesOf(index) ==
    CellIndexToBytes(CellIndexNew(AsU32(index.tx_index), AsU32(index.output_index)))

\* The positions (t, j) of the outputs of the transactions of a delta.
OutputPositions(txs) ==
    {<<t, j>> : t \in 1..Len(txs), j \in 1..MaxOutputs} \cap
    UNION {{<<t, j>> : j \in 1..Len(txs[t].outputs)} : t \in 1..Len(txs)}

\* C36: for any two CellIndex values the byte-wise lexicographic order of
\* their to_bytes is the order of the pairs (tx_index, output_index), by
\* tx_index first and by output_index second; and the CellIndex from_block
\* gives to the output at position j of the transaction at position i of a
\* block is (i, j), so the encoded keys of a block's cells sort in block
\* order.
C36_KeysSortInBlockOrder ==
    /\ codec.at = "bytes" =>
          \A tx_index \in U32Samples, output_index \in U32Samples :
              LET other == CellIndexNew(tx_index, output_index)
              IN /\ BytesLess(codec.bytes, CellIndexToBytes(other))
                    <=> CellIndexLess(codec.key, other)
                 /\ BytesLess(CellIndexToBytes(other), codec.bytes)
                    <=> CellIndexLess(other, codec.key)
    /\ delta # None =>
          \A p \in OutputPositions(delta[1].txs), q \in OutputPositions(delta[1].txs) :
              /\ delta[1].txs[p[1]].outputs[p[2]].index
                    = CellIndexNew(p[1] - 1, p[2] - 1)
              /\ BytesLess(KeyBytesOf(delta[1].txs[p[1]].outputs[p[2]].index),
                           KeyBytesOf(delta[1].txs[q[1]].outputs[q[2]].index))
                    <=> (p[1] < q[1] \/ (p[1] = q[1] /\ p[2] < q[2]))

\* A key whose low bytes are greater and whose high bytes are less than
\* another sample's has been encoded, next to the scan of a block of two
\* transactions of two outputs each.
C36_Witness ==
    /\ codec.at = "bytes"
    /\ codec.key.tx_index = U32(0, 255)
    /\ codec.key.output_index = U32(256, 1)
    /\ pc = "diffed"
    /\ Cardinality(OutputPositions(delta[1].txs)) = 4

\* The transactions this run of apply-txs has sent, in order.
RECURSIVE SentInRun(_, _)
SentInRun(sent, run) ==
    IF sent = <<>> THEN <<>>
    ELSE IF Head(sent).run = run THEN <<Head(sent).tx>> \o SentInRun(Tail(sent), run)
    ELSE SentInRun(Tail(sent), run)

\* The transactions the info file of the run asks to send, in order.
ToSend(info) ==
    (IF info.cell_tx = None THEN <<>> ELSE <<"cell_tx">>)
    \o (IF info.dep_group_tx = None THEN <<>> ELSE <<"dep_group_tx">>)

\* C37: apply-txs sends the cell transaction (if any) before the dep_group
\* transaction (if any); a step of the command adds a snapshot file only
\* when every transaction of the info file has been sent by this run; and
\* a run that failed in opening, checking, building or sending has added
\* no file.
C37_ApplyTxsOrdering ==
    [][deploy.cmd = "apply-txs" =>
          /\ \E n \in 0..2 :
                SentInRun(deploy'.sent, deploy'.run) = SubSeq(ToSend(deploy'.info), 1, n)
          /\ deploy'.dir # deploy.dir =>
                /\ SentInRun(deploy.sent, deploy.run) = ToSend(deploy.info)
                /\ deploy'.sent = deploy.sent
                /\ deploy.at = "snapshot"
          /\ deploy'.failed_at \in {"open", "build", "send_cell", "send_dep"} =>
                deploy'.dir = deploy.dir]_vars

\* A run has sent both transactions and written the snapshot after an
\* earlier run that sent the cell transaction and failed on the other.
C37_Witness ==
    /\ deploy.cmd = "apply-txs"
    /\ deploy.at = "done"
    /\ deploy.run = 2
    /\ Len(deploy.sent) = 3
    /\ SentInRun(deploy.sent, 1) = <<"cell_tx">>
    /\ SentInRun(deploy.sent, 2) = <<"cell_tx", "dep_group_tx">>
    /\ Cardinality(deploy.dir) = 1

\* The names of the changes of a list, in order.
NamesOf(changes) == [i \in 1..Len(changes) |-> changes[i].name]

\* The kind load_cells is to report for the i-th configured cell.
KindFor(lock_script, cell, recipes) ==
    IF cell.location = "out_point" THEN "Reference"
    ELSE IF \A k \in 1..Len(recipes) : recipes[k].name # cell.name THEN "NewAdded"
    ELSE IF \E k \in 1..Len(recipes) :
               /\ recipes[k].name = cell.name
               /\ recipes[k].data_hash = blake2b_256(cell.data)
               /\ recipes[k].lock = lock_script
               /\ recipes[k].type_id = cell.enable_type_id
    THEN "Unchanged"
    ELSE "Changed"

\* The recipes of the snapshot gen-txs has read.
PreviousCellRecipes ==
    IF deploy.input.cell_recipes_opt = None THEN <<>>
    ELSE deploy.input.cell_recipes_opt[1]

\* C38: load_cells reports one change per configured cell, in configuration
\* order and of the kind the cell calls for, then one Removed change for
\* each previous recipe whose name is that of no configured cell; and no
\* cell name is in two changes.
C38_CellDiffIsPartition ==
    (deploy.cmd = "gen-txs" /\ deploy.at = "cells") =>
        LET cells == deploy.input.cells
            changes == deploy.cell_changes
            gone == {k \in 1..Len(PreviousCellRecipes) :
                        \A i \in 1..Len(cells) :
                            cells[i].name # PreviousCellRecipes[k].name}
        IN /\ Len(changes) = Len(cells) + Cardinality(gone)
           /\ \A i \in 1..Len(cells) :
                 /\ changes[i].name = cells[i].name
                 /\ changes[i].kind = KindFor(deploy.lock_script, cells[i],
                                              PreviousCellRecipes)
           /\ \A j \in (Len(cells) + 1)..Len(changes) :
                 /\ changes[j].kind = "Removed"
                 /\ \E k \in gone : changes[j].old_recipe = Some(PreviousCellRecipes[k])
           /\ \A k \in gone :
                 \E j \in (Len(cells) + 1)..Len(changes) :
                     changes[j].old_recipe = Some(PreviousCellRecipes[k])
           /\ \A i \in 1..Len(changes), j \in 1..Len(changes) :
                 changes[i].name = changes[j].name => i = j

\* The changes of a list that create an output carry the indices 0, 1, ...
\* in order, and the others carry none.
Dense(changes) ==
    \A i \in 1..Len(changes) :
        changes[i].output_index =
            IF changes[i].kind \in {"Changed", "NewAdded"}
            THEN Some(Cardinality({j \in 1..(i - 1) :
                                      changes[j].kind \in {"Changed", "NewAdded"}}))
            ELSE None

\* C39: in the changes load_cells returns, and in those load_dep_groups
\* returns, the changes that create a new output carry the output_index
\* values 0, 1, ..., k-1 in configuration order, and an Unchanged, Reference
\* or Removed change carries none and takes none.
C39_OutputIndicesDense ==
    deploy.cmd = "gen-txs" =>
        /\ deploy.at \in {"cells", "dep_groups"} => Dense(deploy.cell_changes)
        /\ deploy.at = "dep_groups" => Dense(deploy.dep_group_changes)

\* An unchanged cell and a referenced one, then an unchanged dep group
\* ahead of a new one that takes index 0.
C39_Witness ==
    /\ deploy.cmd = "gen-txs"
    /\ deploy.at = "dep_groups"
    /\ Len(deploy.cell_changes) = 2
    /\ deploy.cell_changes[1].kind = "Unchanged"
    /\ deploy.cell_changes[2].kind = "Reference"
    /\ Len(deploy.dep_group_changes) = 2
    /\ deploy.dep_group_changes[1].kind = "Unchanged"
    /\ deploy.dep_group_changes[2].kind = "NewAdded"
    /\ deploy.dep_group_changes[2].output_index = Some(0)

\* The signatures stored for a lock arg, as a set.
StoredFor(stored, lock_arg) ==
    IF lock_arg \in DOMAIN stored THEN Elements(stored[lock_arg]) ELSE {}

\* The signatures a key gives for a lock arg of a transaction.
GivenFor(key, tx_opt, lock_arg) ==
    IF tx_opt # None /\ key \in LockArgSigners[lock_arg]
    THEN {<<"signature", key, tx_opt[1]>>} ELSE {}

\* The stored signatures of a transaction after a run are those before it
\* and those the key gives, none twice.
MergedAsUnion(old, new, tx_opt, key) ==
    /\ \A lock_arg \in DOMAIN LockArgSigners :
          StoredFor(new, lock_arg)
              = StoredFor(old, lock_arg) \cup GivenFor(key, tx_opt, lock_arg)
    /\ \A lock_arg \in DOMAIN new :
          Len(new[lock_arg]) = Cardinality(Elements(new[lock_arg]))

SameSets(old, new) ==
    \A lock_arg \in DOMAIN LockArgSigners :
        StoredFor(new, lock_arg) = StoredFor(old, lock_arg)

\* C40: a run of sign_info with add_signatures set that returns Ok leaves,
\* for each transaction and each lock arg, the union of the signatures
\* stored before and the ones newly produced, none stored twice; a second
\* such run with the same key leaves the stored signatures as they were;
\* and a run with add_signatures unset leaves them exactly as they were.
C40_SignatureMerging ==
    [][(deploy.cmd = "sign-txs" /\ deploy'.run = deploy.run + 1) =>
          /\ (deploy'.last[1].add_signatures /\ deploy'.last[1].ok) =>
                /\ MergedAsUnion(deploy.info.cell_tx_signatures,
                                 deploy'.info.cell_tx_signatures,
                                 deploy.info.cell_tx, deploy'.last[1].key)
                /\ MergedAsUnion(deploy.info.dep_group_tx_signatures,
                                 deploy'.info.dep_group_tx_signatures,
                                 deploy.info.dep_group_tx, deploy'.last[1].key)
          /\ (deploy'.last[1].add_signatures /\ deploy'.last[1].ok
              /\ deploy.last = deploy'.last) =>
                /\ SameSets(deploy.info.cell_tx_signatures,
                            deploy'.info.cell_tx_signatures)
                /\ SameSets(deploy.info.dep_group_tx_signatures,
                            deploy'.info.dep_group_tx_signatures)
          /\ ~deploy'.last[1].add_signatures => deploy'.info = deploy.info]_vars

\* The second of two keys of the multisig lock has signed both
\* transactions twice over, after the first.
C40_Witness ==
    /\ deploy.cmd = "sign-txs"
    /\ deploy.run = 3
    /\ deploy.last = deploy.before
    /\ deploy.last = Some([key |-> "k2", add_signatures |-> TRUE, ok |-> TRUE])
    /\ "multisig" \in DOMAIN deploy.info.cell_tx_signatures
    /\ Len(deploy.info.cell_tx_signatures["multisig"]) = 2
    /\ "multisig" \in DOMAIN deploy.info.dep_group_tx_signatures
    /\ Len(deploy.info.dep_group_tx_signatures["multisig"]) = 2
    /\ "sighash" \in DOMAIN deploy.info.cell_tx_signatures

====
